---------------------------- MODULE Spec2Model ----------------------------
(***************************************************************************)
(* A model of the ShitRust tree-walking interpreter (src/src/interpreter.rs).*)
(*                                                                         *)
(* Values, environments and the abstract syntax are TLA+ records; the      *)
(* evaluator is a family of mutually recursive operators that thread the   *)
(* interpreter (`self`) through statement and expression evaluation the    *)
(* way the Rust methods do through `&mut self`.  The state machine is the  *)
(* loop of Interpreter::interpret: one step executes the next top-level    *)
(* statement of the program.                                               *)
(*                                                                         *)
(* Rust's Environment owns its parent by value (Option<Box<Environment>>)  *)
(* and is Clone: every `.clone()` is a deep copy.  TLA+ values have value  *)
(* semantics, so a clone is the value itself and a mutation of one copy    *)
(* is invisible in every other copy, exactly as in the source.             *)
(***************************************************************************)
EXTENDS Integers, Sequences, FiniteSets, TLC

(***************************************************************************)
(* Bounds of the model.                                                    *)
(***************************************************************************)
\* Longest program (number of top-level statements) handed to interpret.
MaxStmts == 4
\* Longest program of the specifications about blocks and about expressions.
MaxBlockStmts == 2
MaxExprStmts == 2
\* Longest program of the specification about patterns and equality.
MaxMatchStmts == 2
\* Most registrations (of traits and impls) and imports, and most calls of
\* a method or a value, in one behaviour.
MaxRegistrations == 3
MaxInvocations == 1
\* Longest importing program of the specification about modules.
MaxImporterStmts == 2
\* Most calls of spawn, and the longest program that makes them.
MaxThreads == 2
MaxSpawnerStmts == 3
\* Most tasks created, most polls made, and the latest instant of the clock.
MaxTasks == 2
MaxPolls == 4
MaxInstant == 1
\* Loop iterations and user-function calls one top-level statement may take
\* before the model gives the run up as non-terminating.
MaxFuel == 4

(***************************************************************************)
(* Option<T>: None is the empty sequence, Some(x) is <<x>>.                *)
(***************************************************************************)
None_ == << >>
Some(x) == << x >>

(***************************************************************************)
(* Value (interpreter.rs:7-31).  A Float is an exact rational n/d, d > 0,  *)
(* in lowest terms.                                                        *)
(***************************************************************************)
Abs(i) == IF i < 0 THEN -i ELSE i

RECURSIVE Gcd(_, _)
Gcd(a, b) == IF b = 0 THEN a ELSE Gcd(b, a % b)

IntV(i) == [t |-> "Int", v |-> i]
FloatV(n, d) ==
    LET g == Gcd(Abs(n), Abs(d))
        s == IF d < 0 THEN -1 ELSE 1
    IN  [t |-> "Float", n |-> (s * n) \div g, d |-> (s * d) \div g]
BoolV(b) == [t |-> "Bool", v |-> b]
StringV(s) == [t |-> "String", v |-> s]
CharV(c) == [t |-> "Char", v |-> c]
ListV(items) == [t |-> "List", items |-> items]
NoneV == [t |-> "None"]
ObjectV(fields) == [t |-> "Object", fields |-> fields]
FunctionV(name, params, body, closure) ==
    [t |-> "Function", name |-> name, params |-> params, body |-> body,
     closure |-> closure]
NativeFunctionV(name) == [t |-> "NativeFunction", name |-> name]
\* Value::NativeFunction as the standard library builds it, with its arity
\* contract (stdlib/collections.rs:42-203), and Value::Function as trait
\* dispatch takes it apart (traits.rs:300).
StdNativeV(name, arity) == [t |-> "NativeFunction", name |-> name, arity |-> arity]
TraitFunctionV(func, arity) == [t |-> "Function", func |-> func, arity |-> arity]
DictV(entries) == [t |-> "Dict", entries |-> entries]

\* Value::type_name
type_name(value) ==
    CASE value.t = "Int" -> "int"
      [] value.t = "Float" -> "float"
      [] value.t = "Bool" -> "bool"
      [] value.t = "String" -> "string"
      [] value.t = "Char" -> "char"
      [] value.t = "List" -> "list"
      [] value.t = "Function" -> "function"
      [] value.t = "NativeFunction" -> "native function"
      [] value.t = "None" -> "none"
      [] OTHER -> "object"

\* i64 to decimal text.
IntToString(i) == ToString(i)

\* The digits after the decimal point of r/d (0 <= r < d), at most k of them.
RECURSIVE FractionDigits(_, _, _)
FractionDigits(r, d, k) ==
    IF r = 0 \/ k = 0 THEN ""
    ELSE ToString((r * 10) \div d) \o FractionDigits((r * 10) % d, d, k - 1)

\* f64 to text: 2 prints as "2", 3.5 as "3.5".
FloatToString(f) ==
    LET a == Abs(f.n)
        whole == a \div f.d
        r == a % f.d
    IN  (IF f.n < 0 THEN "-" ELSE "") \o ToString(whole)
        \o (IF r = 0 THEN "" ELSE "." \o FractionDigits(r, f.d, 17))

RECURSIVE JoinStrings(_, _)
JoinStrings(strs, sep) ==
    IF strs = << >> THEN ""
    ELSE IF Len(strs) = 1 THEN strs[1]
    ELSE strs[1] \o sep \o JoinStrings(Tail(strs), sep)

\* Value::to_string
RECURSIVE to_string(_)
to_string(value) ==
    CASE value.t = "Int" -> IntToString(value.v)
      [] value.t = "Float" -> FloatToString(value)
      [] value.t = "Bool" -> IF value.v THEN "true" ELSE "false"
      [] value.t = "String" -> value.v
      [] value.t = "Char" -> value.v
      [] value.t = "List" ->
            "[" \o JoinStrings([i \in 1..Len(value.items) |->
                                   to_string(value.items[i])], ", ") \o "]"
      [] value.t = "Function" -> "<function " \o value.name \o ">"
      [] value.t = "NativeFunction" -> "<native function " \o value.name \o ">"
      [] value.t = "None" -> "none"
      [] OTHER -> "<object>"

(***************************************************************************)
(* ShitRustError (error.rs:25-82).  NoError stands for Ok.                 *)
(***************************************************************************)
NoError == [kind |-> "Ok", msg |-> ""]
TypeError(msg) == [kind |-> "TypeError", msg |-> msg]
RuntimeError(msg) == [kind |-> "RuntimeError", msg |-> msg]
UndefinedVariable(name) == [kind |-> "UndefinedVariable", msg |-> name]
PatternMatchError(msg) == [kind |-> "PatternMatchError", msg |-> msg]
\* Not an error of the program: the run exceeded MaxFuel.
OutOfFuel == [kind |-> "OutOfFuel", msg |-> ""]

(***************************************************************************)
(* Environment (interpreter.rs:90-156): a frame's bindings and its parent, *)
(* owned by value.                                                         *)
(***************************************************************************)
EmptyValues == [n \in {} |-> NoneV]
Insert(values, name, value) ==
    [n \in (DOMAIN values) \cup {name} |-> IF n = name THEN value ELSE values[n]]

\* Environment::define
define(env, name, value) ==
    [env EXCEPT !.values = Insert(@, name, value)]

\* Environment::new: the global frame with the built-in functions.
Environment_new ==
    define(define([values |-> EmptyValues, parent |-> None_],
                  "println", NativeFunctionV("println")),
           "print", NativeFunctionV("print"))

\* Environment::with_parent
with_parent(parent) == [values |-> EmptyValues, parent |-> Some(parent)]

\* Environment::get
RECURSIVE get(_, _)
get(env, name) ==
    IF name \in DOMAIN env.values
    THEN [err |-> NoError, val |-> env.values[name]]
    ELSE IF env.parent # None_
    THEN get(env.parent[1], name)
    ELSE [err |-> UndefinedVariable(name), val |-> NoneV]

\* An assign that defines the name in the outermost frame when no frame
\* holds it, instead of failing.
RECURSIVE assign_or_define(_, _, _)
assign_or_define(env, name, value) ==
    IF name \in DOMAIN env.values \/ env.parent = None_
    THEN [err |-> NoError, env |-> define(env, name, value)]
    ELSE LET r == assign_or_define(env.parent[1], name, value)
         IN  [err |-> r.err, env |-> [env EXCEPT !.parent = Some(r.env)]]

\* Environment::assign: the binding is overwritten in the first frame that
\* holds it; no frame is touched when none does.
RECURSIVE assign(_, _, _)
assign(env, name, value) ==
    IF name \in DOMAIN env.values
    THEN [err |-> NoError, env |-> define(env, name, value)]
    ELSE IF env.parent # None_
    THEN LET r == assign(env.parent[1], name, value)
         IN  [err |-> r.err, env |-> [env EXCEPT !.parent = Some(r.env)]]
    ELSE [err |-> UndefinedVariable(name), env |-> env]

(***************************************************************************)
(* Results.  A statement yields the interpreter and an error (or NoError); *)
(* an expression yields a value too.  An Err carries the interpreter as    *)
(* the `?` operator left it.                                               *)
(***************************************************************************)
Ok(self, val) == [self |-> self, err |-> NoError, val |-> val]
Err(self, e) == [self |-> self, err |-> e, val |-> NoneV]
Done(self) == [self |-> self, err |-> NoError]
Fail(self, e) == [self |-> self, err |-> e]
IsOk(r) == r.err.kind = "Ok"

(***************************************************************************)
(* Literals (ast.rs:26-38) carry the tag of the value they denote.         *)
(* Interpreter::evaluate_literal (interpreter.rs:736-753).                 *)
(***************************************************************************)
RECURSIVE LiteralImplemented(_)
LiteralImplemented(lit) ==
    CASE lit.t \in {"Int", "Float", "Bool", "String", "Char", "None"} -> TRUE
      [] lit.t = "List" ->
            \A i \in 1..Len(lit.items) : LiteralImplemented(lit.items[i])
      [] OTHER -> FALSE

evaluate_literal(self, lit) ==
    IF LiteralImplemented(lit)
    THEN Ok(self, lit)
    ELSE Err(self, RuntimeError("Literal type not yet implemented"))

(***************************************************************************)
(* Operators (interpreter.rs:757-890).  `as f64` of an i64 is i/1.         *)
(***************************************************************************)
\* Rust's integer / and %: the quotient truncates toward zero.
TruncDiv(a, b) ==
    LET q == Abs(a) \div Abs(b)
    IN  IF (a < 0) = (b < 0) THEN q ELSE -q
TruncRem(a, b) == a - b * TruncDiv(a, b)

AsF64(i) == FloatV(i, 1)
FAdd(a, b) == FloatV(a.n * b.d + b.n * a.d, a.d * b.d)
FSub(a, b) == FloatV(a.n * b.d - b.n * a.d, a.d * b.d)
FMul(a, b) == FloatV(a.n * b.n, a.d * b.d)
FDiv(a, b) == FloatV(a.n * b.d, a.d * b.n)
FLess(a, b) == a.n * b.d < b.n * a.d
FIsZero(a) == a.n = 0

add(self, left, right) ==
    CASE left.t = "Int" /\ right.t = "Int" -> Ok(self, IntV(left.v + right.v))
      [] left.t = "Float" /\ right.t = "Float" -> Ok(self, FAdd(left, right))
      [] left.t = "Int" /\ right.t = "Float" -> Ok(self, FAdd(AsF64(left.v), right))
      [] left.t = "Float" /\ right.t = "Int" -> Ok(self, FAdd(left, AsF64(right.v)))
      [] left.t = "String" /\ right.t = "String" -> Ok(self, StringV(left.v \o right.v))
      [] left.t = "String" /\ right.t # "String" ->
            Ok(self, StringV(left.v \o to_string(right)))
      [] left.t # "String" /\ right.t = "String" ->
            Ok(self, StringV(to_string(left) \o right.v))
      [] OTHER -> Err(self, TypeError("Cannot add these types"))

subtract(self, left, right) ==
    CASE left.t = "Int" /\ right.t = "Int" -> Ok(self, IntV(left.v - right.v))
      [] left.t = "Float" /\ right.t = "Float" -> Ok(self, FSub(left, right))
      [] left.t = "Int" /\ right.t = "Float" -> Ok(self, FSub(AsF64(left.v), right))
      [] left.t = "Float" /\ right.t = "Int" -> Ok(self, FSub(left, AsF64(right.v)))
      [] OTHER -> Err(self, TypeError("Cannot subtract these types"))

multiply(self, left, right) ==
    CASE left.t = "Int" /\ right.t = "Int" -> Ok(self, IntV(left.v * right.v))
      [] left.t = "Float" /\ right.t = "Float" -> Ok(self, FMul(left, right))
      [] left.t = "Int" /\ right.t = "Float" -> Ok(self, FMul(AsF64(left.v), right))
      [] left.t = "Float" /\ right.t = "Int" -> Ok(self, FMul(left, AsF64(right.v)))
      [] OTHER -> Err(self, TypeError("Cannot multiply these types"))

divide(self, left, right) ==
    CASE left.t = "Int" /\ right.t = "Int" ->
            IF right.v = 0
            THEN Err(self, RuntimeError("Division by zero"))
            ELSE Ok(self, IntV(TruncDiv(left.v, right.v)))
      [] left.t = "Float" /\ right.t = "Float" ->
            IF FIsZero(right)
            THEN Err(self, RuntimeError("Division by zero"))
            ELSE Ok(self, FDiv(left, right))
      [] left.t = "Int" /\ right.t = "Float" ->
            IF FIsZero(right)
            THEN Err(self, RuntimeError("Division by zero"))
            ELSE Ok(self, FDiv(AsF64(left.v), right))
      [] left.t = "Float" /\ right.t = "Int" ->
            IF right.v = 0
            THEN Err(self, RuntimeError("Division by zero"))
            ELSE Ok(self, FDiv(left, AsF64(right.v)))
      [] OTHER -> Err(self, TypeError("Cannot divide these types"))

modulo(self, left, right) ==
    CASE left.t = "Int" /\ right.t = "Int" ->
            IF right.v = 0
            THEN Err(self, RuntimeError("Modulo by zero"))
            ELSE Ok(self, IntV(TruncRem(left.v, right.v)))
      [] OTHER -> Err(self, TypeError("Modulo only works with integers"))

equals(self, left, right) ==
    CASE left.t = "Int" /\ right.t = "Int" -> Ok(self, BoolV(left.v = right.v))
      [] left.t = "Float" /\ right.t = "Float" -> Ok(self, BoolV(left = right))
      [] left.t = "Bool" /\ right.t = "Bool" -> Ok(self, BoolV(left.v = right.v))
      [] left.t = "String" /\ right.t = "String" -> Ok(self, BoolV(left.v = right.v))
      [] left.t = "Char" /\ right.t = "Char" -> Ok(self, BoolV(left.v = right.v))
      [] left.t = "None" /\ right.t = "None" -> Ok(self, BoolV(TRUE))
      [] OTHER -> Ok(self, BoolV(FALSE))

\* The numeric arms of the four comparisons; the String and Char arms
\* (lexicographic order) are not modelled and no program here takes them.
less_than(self, left, right) ==
    CASE left.t = "Int" /\ right.t = "Int" -> Ok(self, BoolV(left.v < right.v))
      [] left.t = "Float" /\ right.t = "Float" -> Ok(self, BoolV(FLess(left, right)))
      [] left.t = "Int" /\ right.t = "Float" -> Ok(self, BoolV(FLess(AsF64(left.v), right)))
      [] left.t = "Float" /\ right.t = "Int" -> Ok(self, BoolV(FLess(left, AsF64(right.v))))
      [] OTHER -> Err(self, TypeError("Cannot compare these types"))

less_equal(self, left, right) ==
    CASE left.t = "Int" /\ right.t = "Int" -> Ok(self, BoolV(left.v <= right.v))
      [] left.t = "Float" /\ right.t = "Float" -> Ok(self, BoolV(~FLess(right, left)))
      [] left.t = "Int" /\ right.t = "Float" -> Ok(self, BoolV(~FLess(right, AsF64(left.v))))
      [] left.t = "Float" /\ right.t = "Int" -> Ok(self, BoolV(~FLess(AsF64(right.v), left)))
      [] OTHER -> Err(self, TypeError("Cannot compare these types"))

greater_than(self, left, right) ==
    CASE left.t = "Int" /\ right.t = "Int" -> Ok(self, BoolV(left.v > right.v))
      [] left.t = "Float" /\ right.t = "Float" -> Ok(self, BoolV(FLess(right, left)))
      [] left.t = "Int" /\ right.t = "Float" -> Ok(self, BoolV(FLess(right, AsF64(left.v))))
      [] left.t = "Float" /\ right.t = "Int" -> Ok(self, BoolV(FLess(AsF64(right.v), left)))
      [] OTHER -> Err(self, TypeError("Cannot compare these types"))

greater_equal(self, left, right) ==
    CASE left.t = "Int" /\ right.t = "Int" -> Ok(self, BoolV(left.v >= right.v))
      [] left.t = "Float" /\ right.t = "Float" -> Ok(self, BoolV(~FLess(left, right)))
      [] left.t = "Int" /\ right.t = "Float" -> Ok(self, BoolV(~FLess(AsF64(left.v), right)))
      [] left.t = "Float" /\ right.t = "Int" -> Ok(self, BoolV(~FLess(left, AsF64(right.v))))
      [] OTHER -> Err(self, TypeError("Cannot compare these types"))

\* The And / Or arms of Expr::BinaryOp (interpreter.rs:396-415), applied
\* to the two operand values.
logical_and(self, left_val, right_val) ==
    IF left_val = BoolV(FALSE)
    THEN Ok(self, BoolV(FALSE))
    ELSE IF right_val.t = "Bool"
    THEN Ok(self, right_val)
    ELSE Err(self, TypeError("Expected boolean for '&&'"))

logical_or(self, left_val, right_val) ==
    IF left_val = BoolV(TRUE)
    THEN Ok(self, BoolV(TRUE))
    ELSE IF right_val.t = "Bool"
    THEN Ok(self, right_val)
    ELSE Err(self, TypeError("Expected boolean for '||'"))

\* The match on `op` of Expr::BinaryOp (interpreter.rs:377-416).
binary_op(self, op, left_val, right_val) ==
    CASE op = "Add" -> add(self, left_val, right_val)
      [] op = "Sub" -> subtract(self, left_val, right_val)
      [] op = "Mul" -> multiply(self, left_val, right_val)
      [] op = "Div" -> divide(self, left_val, right_val)
      [] op = "Mod" -> modulo(self, left_val, right_val)
      [] op = "Eq" -> equals(self, left_val, right_val)
      [] op = "Ne" ->
            LET result == equals(self, left_val, right_val)
            IN  Ok(self, BoolV(~result.val.v))
      [] op = "Lt" -> less_than(self, left_val, right_val)
      [] op = "Le" -> less_equal(self, left_val, right_val)
      [] op = "Gt" -> greater_than(self, left_val, right_val)
      [] op = "Ge" -> greater_equal(self, left_val, right_val)
      [] op = "And" -> logical_and(self, left_val, right_val)
      [] op = "Or" -> logical_or(self, left_val, right_val)

\* The match on `op` of Expr::UnaryOp (interpreter.rs:421-435).
unary_op(self, op, value) ==
    CASE op = "Neg" /\ value.t = "Int" -> Ok(self, IntV(-value.v))
      [] op = "Neg" /\ value.t = "Float" -> Ok(self, FloatV(-value.n, value.d))
      [] op = "Neg" -> Err(self, TypeError("Cannot negate"))
      [] op = "Not" /\ value.t = "Bool" -> Ok(self, BoolV(~value.v))
      [] op = "Not" -> Err(self, TypeError("Cannot apply '!'"))

(***************************************************************************)
(* Interpreter (interpreter.rs:158-163).  `self` is a record:              *)
(*   environment  the current Environment                                  *)
(*   stdout       the chunks written by print / println, in order          *)
(*   calls        for each user-function call made, the function's name,   *)
(*                the call path, the environment the function value        *)
(*                captured and the parent given to the frame of its body   *)
(*   fuel         the loop iterations and calls still allowed              *)
(***************************************************************************)
set_environment(self, env) == [self EXCEPT !.environment = env]

\* The built-in functions of Environment::new (interpreter.rs:104-120).
native_call(self, name, args) ==
    LET strings == [i \in 1..Len(args) |-> to_string(args[i])]
        text == JoinStrings(strings, " ")
    IN  CASE name = "println" ->
                Ok([self EXCEPT !.stdout = Append(@, text \o "\n")], NoneV)
          [] name = "print" ->
                Ok([self EXCEPT !.stdout = Append(@, text)], NoneV)
          \* create_queue_constructor (stdlib/collections.rs:652-663)
          [] name = "Queue" ->
                Ok(self, ObjectV(Insert(EmptyValues, "__type", StringV("Queue"))))
          \* create_hashmap_constructor (stdlib/collections.rs:41-203); of the
          \* method fields of the object only size is kept.
          [] name = "HashMap" ->
                Ok(self, ObjectV(Insert(Insert(Insert(EmptyValues,
                       "__type", StringV("HashMap")),
                       "__data", DictV(<< >>)),
                       "size", StdNativeV("size", 1))))
          \* HashMap.size (stdlib/collections.rs:179-198)
          [] name = "size" ->
                IF Len(args) # 1
                THEN Err(self, RuntimeError("HashMap.size requires this argument"))
                ELSE IF args[1].t = "Object"
                        /\ "__data" \in DOMAIN args[1].fields
                        /\ args[1].fields["__data"].t = "Dict"
                THEN Ok(self, IntV(Len(args[1].fields["__data"].entries)))
                ELSE Err(self, TypeError("Expected HashMap object"))

\* for (param, arg) in params.iter().zip(args): the shorter list decides.
RECURSIVE define_params(_, _, _)
define_params(env, params, args) ==
    IF params = << >> \/ args = << >> THEN env
    ELSE define_params(define(env, Head(params), Head(args)),
                       Tail(params), Tail(args))

record_call(self, name, path, captured, env) ==
    [self EXCEPT !.calls = Append(@, [func |-> name, path |-> path,
                                      captured |-> captured,
                                      frame_parent |-> env.parent[1]]),
                 !.fuel = @ - 1]

\* Value::values_equal (interpreter.rs:1003-1026); |a - b| < 1e-9 for floats.
RECURSIVE values_equal(_, _)
values_equal(left, right) ==
    CASE left.t = "Int" /\ right.t = "Int" -> left.v = right.v
      [] left.t = "Float" /\ right.t = "Float" ->
            Abs(left.n * right.d - right.n * left.d) * 1000000000
                < left.d * right.d
      [] left.t = "Bool" /\ right.t = "Bool" -> left.v = right.v
      [] left.t = "String" /\ right.t = "String" -> left.v = right.v
      [] left.t = "Char" /\ right.t = "Char" -> left.v = right.v
      [] left.t = "List" /\ right.t = "List" -> left.items = right.items
      [] OTHER -> FALSE

\* The three typed arms of Pattern::Range (interpreter.rs:973-998); the Char
\* arm is not modelled.
range_contains(self, value, start, end, inclusive) ==
    CASE value.t = "Int" /\ start.t = "Int" /\ end.t = "Int" ->
            Ok(self, value.v >= start.v
                     /\ (IF inclusive THEN value.v <= end.v ELSE value.v < end.v))
      [] value.t = "Float" /\ start.t = "Float" /\ end.t = "Float" ->
            Ok(self, ~FLess(value, start)
                     /\ (IF inclusive THEN ~FLess(end, value) ELSE FLess(value, end)))
      [] OTHER -> Err(self, TypeError("Cannot apply range pattern to incompatible types"))

(***************************************************************************)
(* The methods of the evaluator call one another recursively.  Every such  *)
(* call `self.m(..)` is written self_m(self, ..) and goes through the one   *)
(* recursive operator Invoke, which hands it to the definition m.          *)
(***************************************************************************)
RECURSIVE Invoke(_, _, _)
self_execute_stmt(self, a1) == Invoke("execute_stmt", self, << a1 >>)
self_execute_stmts(self, a1) == Invoke("execute_stmts", self, << a1 >>)
self_evaluate_expr(self, a1) == Invoke("evaluate_expr", self, << a1 >>)
self_evaluate_exprs(self, a1, a2) == Invoke("evaluate_exprs", self, << a1, a2 >>)
self_while_loop(self, a1, a2) == Invoke("while_loop", self, << a1, a2 >>)
self_for_items(self, a1, a2, a3) == Invoke("for_items", self, << a1, a2, a3 >>)
self_loop_forever(self, a1) == Invoke("loop_forever", self, << a1 >>)
self_execute_block(self, a1, a2) == Invoke("execute_block", self, << a1, a2 >>)
self_call_user_function(self, a1, a2) == Invoke("call_user_function", self, << a1, a2 >>)
self_call_function(self, a1, a2, a3) == Invoke("call_function", self, << a1, a2, a3 >>)
self_optional_chain(self, a1, a2) == Invoke("optional_chain", self, << a1, a2 >>)
self_pipeline_chain(self, a1, a2) == Invoke("pipeline_chain", self, << a1, a2 >>)
self_pipeline_comprehension(self, a1, a2, a3) == Invoke("pipeline_comprehension", self, << a1, a2, a3 >>)
self_match_arms(self, a1, a2) == Invoke("match_arms", self, << a1, a2 >>)
self_struct_fields(self, a1, a2) == Invoke("struct_fields", self, << a1, a2 >>)
self_pattern_matches(self, a1, a2) == Invoke("pattern_matches", self, << a1, a2 >>)
self_patterns_all(self, a1, a2) == Invoke("patterns_all", self, << a1, a2 >>)
self_patterns_any(self, a1, a2) == Invoke("patterns_any", self, << a1, a2 >>)
self_destructure_fields(self, a1, a2) == Invoke("destructure_fields", self, << a1, a2 >>)

\* `for stmt in block { self.execute_stmt(stmt)?; }`
execute_stmts(self, stmts) ==
    IF stmts = << >> THEN Done(self)
    ELSE LET r == self_execute_stmt(self, Head(stmts))
         IN  IF IsOk(r) THEN self_execute_stmts(r.self, Tail(stmts)) ELSE r

\* Evaluates exprs left to right, stopping at the first error; `acc` holds
\* the values so far.
evaluate_exprs(self, exprs, acc) ==
    IF exprs = << >> THEN Ok(self, acc)
    ELSE LET r == self_evaluate_expr(self, Head(exprs))
         IN  IF IsOk(r)
             THEN self_evaluate_exprs(r.self, Tail(exprs), Append(acc, r.val))
             ELSE r

\* Stmt::While (interpreter.rs:218-226)
while_loop(self, condition, body) ==
    LET c == self_evaluate_expr(self, condition)
    IN  IF ~IsOk(c) THEN Fail(c.self, c.err)
        ELSE IF c.val # BoolV(TRUE) THEN Done(c.self)
        ELSE IF c.self.fuel = 0 THEN Fail(c.self, OutOfFuel)
        ELSE LET b == self_execute_stmts([c.self EXCEPT !.fuel = @ - 1], body)
             IN  IF IsOk(b) THEN self_while_loop(b.self, condition, body) ELSE b

\* The iterations of Stmt::For (interpreter.rs:233-248)
for_items(self, var, items, body) ==
    IF items = << >> THEN Done(self)
    ELSE LET previous_env == self.environment
             entered == set_environment(self,
                            define(with_parent(previous_env), var, Head(items)))
             b == self_execute_stmts(entered, body)
         IN  IF ~IsOk(b) THEN b
             ELSE self_for_items(set_environment(b.self, b.self.environment.parent[1]),
                            var, Tail(items), body)

\* Interpreter::execute_block is called by Stmt::Loop and defined nowhere in
\* the sources: the block runs in the environment it is handed and the
\* environment of the caller is put back when it ends, normally or not.
execute_block(self, stmts, env) ==
    LET previous == self.environment
        b == self_execute_stmts(set_environment(self, env), stmts)
    IN  [b EXCEPT !.self = set_environment(b.self, previous)]

\* Stmt::Loop (interpreter.rs:346-355).  No statement of the evaluator
\* raises ShitRustError::Break, so only an error ends the loop.
loop_forever(self, body) ==
    IF self.fuel = 0 THEN Fail(self, OutOfFuel)
    ELSE LET b == self_execute_block([self EXCEPT !.fuel = @ - 1], body,
                                with_parent(self.environment))
         IN  IF IsOk(b) THEN self_loop_forever(b.self, body)
             ELSE IF b.err.kind = "Break" THEN Done(b.self)
             ELSE b

\* The statement kinds that have no arm of their own in execute_stmt.
NotImplementedStmts ==
    {"Match", "Break", "Continue", "Struct", "Enum", "Import", "Try", "Async"}

\* Interpreter::execute_stmt (interpreter.rs:183-367)
execute_stmt(self, stmt) ==
    CASE stmt.s = "Expr" ->
            LET r == self_evaluate_expr(self, stmt.expr)
            IN  Fail(r.self, r.err)
      [] stmt.s \in {"Let", "Const"} ->
            LET r == self_evaluate_expr(self, stmt.value)
            IN  IF IsOk(r)
                THEN Done(set_environment(r.self,
                              define(r.self.environment, stmt.name, r.val)))
                ELSE Fail(r.self, r.err)
      [] stmt.s = "Assign" ->
            IF stmt.target.e = "Identifier"
            THEN LET r == self_evaluate_expr(self, stmt.value)
                 IN  IF IsOk(r)
                     THEN LET a == assign(r.self.environment, stmt.target.name, r.val)
                          IN  Fail(set_environment(r.self, a.env), a.err)
                     ELSE Fail(r.self, r.err)
            ELSE Fail(self, RuntimeError("Invalid assignment target"))
      [] stmt.s = "If" ->
            LET c == self_evaluate_expr(self, stmt.condition)
            IN  IF ~IsOk(c) THEN Fail(c.self, c.err)
                ELSE IF c.val = BoolV(TRUE)
                THEN self_execute_stmts(c.self, stmt.then_block)
                ELSE IF stmt.else_block # None_
                THEN self_execute_stmts(c.self, stmt.else_block[1])
                ELSE Done(c.self)
      [] stmt.s = "While" -> self_while_loop(self, stmt.condition, stmt.body)
      [] stmt.s = "For" ->
            LET it == self_evaluate_expr(self, stmt.iterator)
            IN  IF ~IsOk(it) THEN Fail(it.self, it.err)
                ELSE IF it.val.t = "List"
                THEN self_for_items(it.self, stmt.var, it.val.items, stmt.body)
                ELSE Fail(it.self, TypeError("Cannot iterate over " \o type_name(it.val)))
      [] stmt.s = "Return" ->
            IF stmt.value # None_
            THEN LET r == self_evaluate_expr(self, stmt.value[1])
                 IN  Fail(r.self, r.err)
            ELSE Done(self)
      [] stmt.s = "Function" ->
            Done(set_environment(self,
                     define(self.environment, stmt.name,
                            FunctionV(stmt.name, stmt.params, stmt.body,
                                      self.environment))))
      [] stmt.s = "Loop" -> self_loop_forever(self, stmt.body)
      [] stmt.s \in NotImplementedStmts ->
            Done([self EXCEPT !.stdout =
                      Append(@, "Statement type not yet implemented: "
                                \o stmt.s \o "\n")])
            \* the source prints the statement's Debug form; its kind stands for it

\* The Value::Function arm of Expr::Call (interpreter.rs:449-479): the frame
\* of the body is a child of the environment the function value holds.
call_user_function(self, callee, evaluated_args) ==
    IF Len(callee.params) # Len(evaluated_args)
    THEN Err(self, RuntimeError("Expected " \o ToString(Len(callee.params))
                                \o " arguments but got "
                                \o ToString(Len(evaluated_args))))
    ELSE IF self.fuel = 0 THEN Err(self, OutOfFuel)
    ELSE LET env == define_params(with_parent(callee.closure),
                                  callee.params, evaluated_args)
             previous_env == self.environment
             entered == set_environment(
                            record_call(self, callee.name, "Call",
                                        callee.closure, env), env)
             b == self_execute_stmts(entered, callee.body)
         IN  IF ~IsOk(b) THEN Err(b.self, b.err)
             ELSE Ok(set_environment(b.self, previous_env), NoneV)

\* Interpreter::call_function (interpreter.rs:1028-1055): the frame of the
\* body is a child of the interpreter's current environment.
call_function(self, func, args, this) ==
    IF self.fuel = 0 THEN Err(self, OutOfFuel)
    ELSE LET env0 == define_params(with_parent(self.environment),
                                   func.params, args)
             env == IF this # None_ THEN define(env0, "this", this[1]) ELSE env0
             previous_env == self.environment
             entered == set_environment(
                            record_call(self, func.name, "call_function",
                                        func.closure, env), env)
             b == self_execute_stmts(entered, func.body)
         IN  IF ~IsOk(b) THEN Err(b.self, b.err)
             ELSE Ok(set_environment(b.self, previous_env), NoneV)

\* The items of Expr::OptionalChain (interpreter.rs:503-634), applied to
\* `value` in order.  No expression of the evaluator builds a
\* Value::Optional, so its arms are left out.
optional_chain(self, value, chain) ==
    IF chain = << >> THEN Ok(self, value)
    ELSE LET item == Head(chain)
         IN  CASE item.i = "Field" ->
                    CASE value.t = "Object" ->
                            IF item.field \in DOMAIN value.fields
                            THEN self_optional_chain(self, value.fields[item.field],
                                                Tail(chain))
                            ELSE Ok(self, NoneV)
                      [] value.t = "None" -> Ok(self, NoneV)
                      [] OTHER -> Err(self, TypeError("Cannot access property '"
                                        \o item.field \o "' of non-object value"))
               [] item.i = "Method" ->
                    LET evaluated_args == self_evaluate_exprs(self, item.args, << >>)
                        after == evaluated_args.self
                    IN  CASE value.t = "Object" ->
                                IF item.method \in DOMAIN value.fields
                                THEN IF value.fields[item.method].t = "Function"
                                     THEN IF ~IsOk(evaluated_args)
                                          THEN evaluated_args
                                          ELSE LET r == self_call_function(after,
                                                        value.fields[item.method],
                                                        evaluated_args.val,
                                                        Some(value))
                                               IN  IF IsOk(r)
                                                   THEN self_optional_chain(r.self, r.val,
                                                                       Tail(chain))
                                                   ELSE r
                                     ELSE Err(after, TypeError("Property '"
                                                \o item.method \o "' is not a method"))
                                ELSE Ok(after, NoneV)
                          [] value.t = "None" -> Ok(after, NoneV)
                          [] OTHER -> Err(after, TypeError("Cannot call method '"
                                            \o item.method \o "' on non-object value"))
               [] item.i = "Index" ->
                    LET index == self_evaluate_expr(self, item.index)
                    IN  IF ~IsOk(index) THEN index
                        ELSE CASE value.t = "List" ->
                                    IF index.val.t = "Int"
                                    THEN IF index.val.v >= 0
                                            /\ index.val.v < Len(value.items)
                                         THEN self_optional_chain(index.self,
                                                  value.items[index.val.v + 1],
                                                  Tail(chain))
                                         ELSE Ok(index.self, NoneV)
                                    ELSE Err(index.self,
                                             TypeError("List index must be an integer"))
                               [] value.t = "None" -> Ok(index.self, NoneV)
                               [] OTHER -> Err(index.self,
                                               TypeError("Cannot index non-list value"))

\* The ListComprehension step of a pipeline (interpreter.rs:659-695) over
\* the items of the piped list; `acc` is the result list so far.
pipeline_comprehension(self, step, items, acc) ==
    IF items = << >> THEN Ok(self, ListV(acc))
    ELSE LET bound == set_environment(self,
                          define(self.environment, step.var_name, Head(items)))
             cond == IF step.condition # None_
                     THEN self_evaluate_expr(bound, step.condition[1])
                     ELSE Ok(bound, BoolV(TRUE))
         IN  IF ~IsOk(cond) THEN cond
             ELSE IF cond.val = BoolV(TRUE)
             THEN LET item_result == self_evaluate_expr(cond.self, step.expr)
                  IN  IF IsOk(item_result)
                      THEN self_pipeline_comprehension(item_result.self, step,
                               Tail(items), Append(acc, item_result.val))
                      ELSE item_result
             ELSE IF cond.val = BoolV(FALSE)
             THEN self_pipeline_comprehension(cond.self, step, Tail(items), acc)
             ELSE Err(cond.self,
                      TypeError("Condition in list comprehension must be a boolean"))

\* The steps of Expr::PipelineChain (interpreter.rs:639-702)
pipeline_chain(self, value, chain) ==
    IF chain = << >> THEN Ok(self, value)
    ELSE LET step == Head(chain)
         IN  CASE step.e = "Call" ->
                    LET rest == self_evaluate_exprs(self, step.args, << >>)
                    IN  IF ~IsOk(rest) THEN rest
                        ELSE LET new_args == << value >> \o rest.val
                                 function == self_evaluate_expr(rest.self, step.func)
                             IN  IF ~IsOk(function) THEN function
                                 ELSE IF function.val.t = "Function"
                                 THEN LET r == self_call_function(function.self,
                                                   function.val, new_args, None_)
                                      IN  IF IsOk(r)
                                          THEN self_pipeline_chain(r.self, r.val,
                                                              Tail(chain))
                                          ELSE r
                                 ELSE Err(function.self,
                                      TypeError("Cannot call non-function value in pipeline"))
               [] step.e = "ListComprehension" ->
                    IF value.t = "List"
                    THEN LET r == self_pipeline_comprehension(self, step,
                                                         value.items, << >>)
                         IN  IF IsOk(r)
                             THEN self_pipeline_chain(r.self, r.val, Tail(chain))
                             ELSE r
                    ELSE Err(self, TypeError(
                             "Pipeline value must be a list for list comprehension"))
               [] OTHER -> Err(self, TypeError("Unsupported expression in pipeline"))

\* The arms of Expr::Match (interpreter.rs:707-716), tried in order.
match_arms(self, value, arms) ==
    IF arms = << >>
    THEN Err(self, PatternMatchError("No pattern matched value"))
    ELSE LET m == self_pattern_matches(self, value, Head(arms).pattern)
         IN  IF ~IsOk(m) THEN m
             ELSE IF m.val THEN self_evaluate_expr(m.self, Head(arms).result)
             ELSE self_match_arms(m.self, value, Tail(arms))

\* The fields of Expr::StructInit (interpreter.rs:719-727); `obj` is the
\* map built so far.
struct_fields(self, fields, obj) ==
    IF fields = << >> THEN Ok(self, ObjectV(obj))
    ELSE LET r == self_evaluate_expr(self, Head(fields).value)
         IN  IF IsOk(r)
             THEN self_struct_fields(r.self, Tail(fields),
                                Insert(obj, Head(fields).name, r.val))
             ELSE r

\* `match callee` of Expr::Call (interpreter.rs:445-481)
call_value(self, callee, evaluated_args) ==
    CASE callee.t = "NativeFunction" ->
            native_call(self, callee.name, evaluated_args)
      [] callee.t = "Function" ->
            self_call_user_function(self, callee, evaluated_args)
      [] OTHER -> Err(self, RuntimeError("Cannot call " \o type_name(callee)))

\* The expression kinds that have an arm of their own in evaluate_expr.
ImplementedExprs ==
    {"Literal", "Identifier", "BinaryOp", "UnaryOp", "Call", "MethodCall",
     "OptionalChain", "PipelineChain", "Match", "StructInit"}

\* Interpreter::evaluate_expr (interpreter.rs:369-734)
evaluate_expr(self, expr) ==
    CASE expr.e = "Literal" -> evaluate_literal(self, expr.lit)
      [] expr.e = "Identifier" ->
            LET g == get(self.environment, expr.name)
            IN  [self |-> self, err |-> g.err, val |-> g.val]
      [] expr.e = "BinaryOp" ->
            LET left_val == self_evaluate_expr(self, expr.left)
            IN  IF ~IsOk(left_val) THEN left_val
                ELSE LET right_val == self_evaluate_expr(left_val.self, expr.right)
                     IN  IF ~IsOk(right_val) THEN right_val
                         ELSE binary_op(right_val.self, expr.op,
                                        left_val.val, right_val.val)
      [] expr.e = "UnaryOp" ->
            LET value == self_evaluate_expr(self, expr.expr)
            IN  IF ~IsOk(value) THEN value
                ELSE unary_op(value.self, expr.op, value.val)
      [] expr.e = "Call" ->
            LET callee == self_evaluate_expr(self, expr.func)
            IN  IF ~IsOk(callee) THEN callee
                ELSE LET evaluated_args ==
                             self_evaluate_exprs(callee.self, expr.args, << >>)
                     IN  IF ~IsOk(evaluated_args) THEN evaluated_args
                         ELSE call_value(evaluated_args.self, callee.val,
                                         evaluated_args.val)
      [] expr.e = "MethodCall" ->
            LET obj_val == self_evaluate_expr(self, expr.object)
            IN  IF ~IsOk(obj_val) THEN obj_val
                ELSE IF expr.method = "to_string"
                THEN Ok(obj_val.self, StringV(to_string(obj_val.val)))
                ELSE Err(obj_val.self,
                         RuntimeError("Method '" \o expr.method \o "' not found on "
                                      \o type_name(obj_val.val)))
      [] expr.e = "OptionalChain" ->
            LET value == self_evaluate_expr(self, expr.expr)
            IN  IF ~IsOk(value) THEN value
                ELSE IF value.val.t = "None" THEN Ok(value.self, NoneV)
                ELSE self_optional_chain(value.self, value.val, expr.chain)
      [] expr.e = "PipelineChain" ->
            LET value == self_evaluate_expr(self, expr.initial)
            IN  IF ~IsOk(value) THEN value
                ELSE self_pipeline_chain(value.self, value.val, expr.chain)
      [] expr.e = "Match" ->
            LET value == self_evaluate_expr(self, expr.expr)
            IN  IF ~IsOk(value) THEN value
                ELSE self_match_arms(value.self, value.val, expr.arms)
      [] expr.e = "StructInit" -> self_struct_fields(self, expr.fields, EmptyValues)
      [] expr.e \notin ImplementedExprs ->
            Err(self, RuntimeError("Expression type not yet implemented"))

\* `for (i, pattern) in values.iter().enumerate()`: false at the first
\* sub-pattern that does not match.
patterns_all(self, values, patterns) ==
    IF patterns = << >> THEN Ok(self, TRUE)
    ELSE LET m == self_pattern_matches(self, Head(values), Head(patterns))
         IN  IF ~IsOk(m) \/ ~m.val THEN m
             ELSE self_patterns_all(m.self, Tail(values), Tail(patterns))

\* Pattern::Or: true at the first alternative that matches.
patterns_any(self, value, patterns) ==
    IF patterns = << >> THEN Ok(self, FALSE)
    ELSE LET m == self_pattern_matches(self, value, Head(patterns))
         IN  IF ~IsOk(m) \/ m.val THEN m
             ELSE self_patterns_any(m.self, value, Tail(patterns))

\* The field loop of Pattern::Destructure (interpreter.rs:944-952)
destructure_fields(self, obj, fields) ==
    IF fields = << >> THEN Ok(self, TRUE)
    ELSE IF Head(fields).name \in DOMAIN obj
    THEN LET m == self_pattern_matches(self, obj[Head(fields).name],
                                  Head(fields).pattern)
         IN  IF ~IsOk(m) \/ ~m.val THEN m
             ELSE self_destructure_fields(m.self, obj, Tail(fields))
    ELSE Ok(self, FALSE)

\* Interpreter::pattern_matches (interpreter.rs:892-1001)
pattern_matches(self, value, pattern) ==
    CASE pattern.p = "Wildcard" -> Ok(self, TRUE)
      [] pattern.p = "Literal" ->
            LET pattern_value == evaluate_literal(self, pattern.lit)
            IN  IF ~IsOk(pattern_value) THEN pattern_value
                ELSE Ok(self, values_equal(value, pattern_value.val))
      [] pattern.p = "Identifier" ->
            Ok(set_environment(self,
                   define(self.environment, pattern.name, value)), TRUE)
      [] pattern.p = "EnumVariant" ->
            IF value.t = "Enum"
            THEN IF value.variant # pattern.name THEN Ok(self, FALSE)
                 ELSE IF Len(pattern.values) # Len(value.values) THEN Ok(self, FALSE)
                 ELSE self_patterns_all(self, value.values, pattern.values)
            ELSE Ok(self, FALSE)
      [] pattern.p = "Destructure" ->
            IF value.t = "Object"
            THEN IF pattern.name # ""
                    /\ "__type" \in DOMAIN value.fields
                    /\ value.fields["__type"].t = "String"
                    /\ value.fields["__type"].v # pattern.name
                 THEN Ok(self, FALSE)
                 ELSE self_destructure_fields(self, value.fields, pattern.fields)
            ELSE Ok(self, FALSE)
      [] pattern.p = "Or" -> self_patterns_any(self, value, pattern.patterns)
      [] pattern.p = "Range" ->
            LET start_value == evaluate_literal(self, pattern.start)
                end_value == evaluate_literal(self, pattern.end)
            IN  IF ~IsOk(start_value) THEN start_value
                ELSE IF ~IsOk(end_value) THEN end_value
                ELSE range_contains(self, value, start_value.val, end_value.val,
                                    pattern.inclusive)

Invoke(m, self, a) ==
    CASE m = "execute_stmt" -> execute_stmt(self, a[1])
      [] m = "execute_stmts" -> execute_stmts(self, a[1])
      [] m = "evaluate_expr" -> evaluate_expr(self, a[1])
      [] m = "evaluate_exprs" -> evaluate_exprs(self, a[1], a[2])
      [] m = "while_loop" -> while_loop(self, a[1], a[2])
      [] m = "for_items" -> for_items(self, a[1], a[2], a[3])
      [] m = "loop_forever" -> loop_forever(self, a[1])
      [] m = "execute_block" -> execute_block(self, a[1], a[2])
      [] m = "call_user_function" -> call_user_function(self, a[1], a[2])
      [] m = "call_function" -> call_function(self, a[1], a[2], a[3])
      [] m = "optional_chain" -> optional_chain(self, a[1], a[2])
      [] m = "pipeline_chain" -> pipeline_chain(self, a[1], a[2])
      [] m = "pipeline_comprehension" -> pipeline_comprehension(self, a[1], a[2], a[3])
      [] m = "match_arms" -> match_arms(self, a[1], a[2])
      [] m = "struct_fields" -> struct_fields(self, a[1], a[2])
      [] m = "pattern_matches" -> pattern_matches(self, a[1], a[2])
      [] m = "patterns_all" -> patterns_all(self, a[1], a[2])
      [] m = "patterns_any" -> patterns_any(self, a[1], a[2])
      [] m = "destructure_fields" -> destructure_fields(self, a[1], a[2])

(***************************************************************************)
(* Abstract syntax (ast.rs:69-296): the constructors the programs use.     *)
(***************************************************************************)
Lit(v) == [e |-> "Literal", lit |-> v]
Id(name) == [e |-> "Identifier", name |-> name]
BinaryOp(left, op, right) == [e |-> "BinaryOp", left |-> left, op |-> op, right |-> right]
Call(func, args) == [e |-> "Call", func |-> func, args |-> args]
PipelineChain(initial, chain) == [e |-> "PipelineChain", initial |-> initial, chain |-> chain]
OptionalChain(expr, chain) == [e |-> "OptionalChain", expr |-> expr, chain |-> chain]
MethodItem(method, args) == [i |-> "Method", method |-> method, args |-> args]
StructInit(name, fields) == [e |-> "StructInit", name |-> name, fields |-> fields]
Field(name, value) == [name |-> name, value |-> value]
MatchExpr(expr, arms) == [e |-> "Match", expr |-> expr, arms |-> arms]
Arm(pattern, result) == [pattern |-> pattern, result |-> result]
Wildcard == [p |-> "Wildcard"]
LiteralPattern(v) == [p |-> "Literal", lit |-> v]
IdentifierPattern(name) == [p |-> "Identifier", name |-> name]
DestructurePattern(name, fields) == [p |-> "Destructure", name |-> name, fields |-> fields]
FieldPattern(name, pattern) == [name |-> name, pattern |-> pattern]
OrPattern(patterns) == [p |-> "Or", patterns |-> patterns]

ExprStmt(expr) == [s |-> "Expr", expr |-> expr]
Let(name, value) == [s |-> "Let", name |-> name, value |-> value]
Assign(name, value) == [s |-> "Assign", target |-> Id(name), value |-> value]
If(condition, then_block, else_block) ==
    [s |-> "If", condition |-> condition, then_block |-> then_block,
     else_block |-> else_block]
While(condition, body) == [s |-> "While", condition |-> condition, body |-> body]
For(var, iterator, body) == [s |-> "For", var |-> var, iterator |-> iterator, body |-> body]
Loop(body) == [s |-> "Loop", body |-> body]
Return(value) == [s |-> "Return", value |-> value]
Function(name, params, body) ==
    [s |-> "Function", name |-> name, params |-> params, body |-> body]
Break == [s |-> "Break"]
Continue == [s |-> "Continue"]
MatchStmt(expr, arms) == [s |-> "Match", expr |-> expr, arms |-> arms]

Println(expr) == ExprStmt(Call(Id("println"), << expr >>))

(***************************************************************************)
(* Traits (traits.rs).  The registry is the field trait_registry of the    *)
(* Interpreter (traits.rs:227); return types, async flags and generic      *)
(* parameters are left out.                                                *)
(***************************************************************************)
\* struct TraitMethod (traits.rs:20-36), struct Trait (traits.rs:7-17),
\* struct TraitImpl (traits.rs:39-52)
TraitMethod(name, params, default_impl) ==
    [name |-> name, params |-> params, default_impl |-> default_impl]
Trait(name, methods) == [name |-> name, methods |-> methods]
TraitImpl(trait_name, type_name_, methods) ==
    [trait_name |-> trait_name, type_name |-> type_name_, methods |-> methods]

\* TraitRegistry::new
TraitRegistry_new == [traits |-> EmptyValues, impls |-> EmptyValues]

\* TraitRegistry::register_trait
register_trait(self, trait_def) ==
    [self EXCEPT !.traits = Insert(@, trait_def.name, trait_def)]

\* The methods of the trait that impl_def leaves out and that have no
\* default body.
MissingMethods(trait_def, impl_def) ==
    { m \in DOMAIN trait_def.methods :
          /\ m \notin DOMAIN impl_def.methods
          /\ trait_def.methods[m].default_impl = None_ }

\* TraitRegistry::register_impl.  The loop over trait_def.methods reports
\* the first missing method it meets.
register_impl(self, impl_def) ==
    IF impl_def.trait_name \notin DOMAIN self.traits
    THEN [err |-> TypeError("Cannot implement unknown trait '"
                            \o impl_def.trait_name \o "'"),
          self |-> self]
    ELSE LET trait_def == self.traits[impl_def.trait_name]
             missing == MissingMethods(trait_def, impl_def)
         IN  IF missing # {}
             THEN [err |-> TypeError("Missing implementation for required method '"
                                     \o (CHOOSE m \in missing : TRUE)
                                     \o "' in trait '" \o impl_def.trait_name \o "'"),
                   self |-> self]
             ELSE [err |-> NoError,
                   self |-> [self EXCEPT !.impls =
                                Insert(@, << impl_def.trait_name, impl_def.type_name >>,
                                       impl_def)]]

\* TraitRegistry::implements_trait
implements_trait(self, trait_name, type_name_) ==
    << trait_name, type_name_ >> \in DOMAIN self.impls

\* TraitRegistry::get_trait_method: the method of the impl; the branch for
\* a default body of the trait builds no value and falls through to None.
get_trait_method(self, trait_name, type_name_, method_name) ==
    LET key == << trait_name, type_name_ >>
    IN  IF key \in DOMAIN self.impls
           /\ method_name \in DOMAIN self.impls[key].methods
        THEN Some(self.impls[key].methods[method_name])
        ELSE None_

\* `let type_name = match object` of call_trait_method (traits.rs:263-282)
receiver_type(object) ==
    CASE object.t = "Object" ->
            IF "__type" \in DOMAIN object.fields
               /\ object.fields["__type"].t = "String"
            THEN [err |-> NoError, name |-> object.fields["__type"].v]
            ELSE [err |-> TypeError("Object has no type information"), name |-> ""]
      [] object.t = "Int" -> [err |-> NoError, name |-> "int"]
      [] object.t = "Float" -> [err |-> NoError, name |-> "float"]
      [] object.t = "Bool" -> [err |-> NoError, name |-> "bool"]
      [] object.t = "String" -> [err |-> NoError, name |-> "string"]
      [] object.t = "List" -> [err |-> NoError, name |-> "list"]
      [] object.t = "Dict" -> [err |-> NoError, name |-> "map"]
      [] object.t \in {"Function", "NativeFunction"} ->
            [err |-> NoError, name |-> "function"]
      [] object.t = "None" ->
            [err |-> TypeError("Cannot call trait method on None"), name |-> ""]

WrongArity(arity, n) ==
    RuntimeError("Wrong number of arguments for trait method: expected "
                 \o IntToString(arity) \o ", got " \o IntToString(n))

\* A call_trait_method that invokes the method whatever its arity contract.
call_trait_method_unchecked(self, object, trait_name, method_name, args) ==
    LET ty == receiver_type(object)
        found == get_trait_method(self.trait_registry, trait_name,
                                  ty.name, method_name)
    IN  IF ty.err # NoError THEN Err(self, ty.err)
        ELSE IF found = None_
        THEN Err(self, RuntimeError("Trait '" \o trait_name
                                    \o "' has no method '" \o method_name \o "'"))
        ELSE IF found[1].t = "Function"
        THEN self_call_function(self, found[1].func, << object >> \o args, None_)
        ELSE native_call(self, found[1].name, << object >> \o args)

\* TraitSupport::call_trait_method (traits.rs:261-330)
call_trait_method(self, object, trait_name, method_name, args) ==
    LET ty == receiver_type(object)
    IN  IF ty.err # NoError THEN Err(self, ty.err)
        ELSE IF ~implements_trait(self.trait_registry, trait_name, ty.name)
        THEN Err(self, TypeError("Type '" \o ty.name
                                 \o "' does not implement trait '"
                                 \o trait_name \o "'"))
        ELSE LET found == get_trait_method(self.trait_registry, trait_name,
                                           ty.name, method_name)
             IN  IF found = None_
                 THEN Err(self, RuntimeError("Trait '" \o trait_name
                                             \o "' has no method '"
                                             \o method_name \o "'"))
                 ELSE LET method == found[1]
                          method_args == << object >> \o args
                      IN  CASE method.t = "Function" ->
                                  IF method.arity >= 0
                                     /\ Len(method_args) # method.arity
                                  THEN Err(self, WrongArity(method.arity,
                                                            Len(method_args)))
                                  ELSE self_call_function(self, method.func,
                                                          method_args, None_)
                            [] method.t = "NativeFunction" ->
                                  IF method.arity >= 0
                                     /\ Len(method_args) # method.arity
                                  THEN Err(self, WrongArity(method.arity,
                                                            Len(method_args)))
                                  ELSE native_call(self, method.name, method_args)
                            [] OTHER ->
                                  Err(self, TypeError("Trait method is not callable"))

(***************************************************************************)
(* Modules (module_system.rs).  The lexer and the parser are left out: the *)
(* disk holds, for each module file, the program the parser returns.       *)
(***************************************************************************)
ModuleNotFound(name) == [kind |-> "ModuleNotFound", msg |-> name]

\* Module::new
Module_new(name) == [name |-> name, exports |-> EmptyValues, loaded |-> FALSE]

\* `is_public` of a declaration; statements built without the flag are
\* private.
IsPublic(stmt) == "is_public" \in DOMAIN stmt /\ stmt.is_public
\* The kinds of declaration execute_module looks at, of those execute_stmt
\* has an arm for.
Exportable == {"Function", "Const"}

\* The methods of Interpreter that module_system.rs calls and that
\* interpreter.rs does not define: the environment snapshot and swap, the
\* fresh environment of a module, and the lookup of a name.
get_environment(interpreter_) == interpreter_.environment
create_module_environment(interpreter_) ==
    set_environment(interpreter_, Environment_new)
execute_statement(interpreter_, stmt) ==
    self_execute_stmt(interpreter_, stmt)
get_value(interpreter_, name) ==
    LET g == get(interpreter_.environment, name)
    IN  IF g.err = NoError THEN Some(g.val) ELSE None_

\* The loop of Module::execute_module (module_system.rs:67-115): each
\* statement is executed and, if it is a public declaration, the value its
\* name has at that moment is put into the exports.
\* module_system.rs:72-114: after a public declaration has been executed,
\* the value its name has at that moment is put into the exports.
collect_export(prev, stmt, r) ==
    IF ~IsOk(r)
    THEN [err |-> r.err, self |-> prev.self, interpreter |-> r.self]
    ELSE [err |-> NoError,
          self |-> IF stmt.s \in Exportable /\ IsPublic(stmt)
                      /\ get_value(r.self, stmt.name) # None_
                   THEN [prev.self EXCEPT !.exports =
                            Insert(@, stmt.name,
                                   get_value(r.self, stmt.name)[1])]
                   ELSE prev.self,
          interpreter |-> r.self]

\* One iteration of the loop (module_system.rs:67-115); an error of an
\* earlier statement has left the function.
execute_module_stmt(prev, stmt) ==
    IF prev.err # NoError THEN prev
    ELSE collect_export(prev, stmt,
                        execute_statement(prev.interpreter, stmt))

execute_module_stmts(self, statements, interpreter_) ==
    LET after[i \in 0..Len(statements)] ==
            IF i = 0
            THEN [err |-> NoError, self |-> self, interpreter |-> interpreter_]
            ELSE execute_module_stmt(after[i - 1], statements[i])
    IN  after[Len(statements)]

\* An execute_module that leaves the interpreter in the environment of the
\* module.
execute_module_unrestored(self, program_, interpreter_) ==
    execute_module_stmts(self, program_, create_module_environment(interpreter_))

\* module_system.rs:69 and 118: `?` leaves on an error, before the previous
\* environment is restored.
restore_environment(r, previous_env) ==
    IF r.err # NoError THEN r
    ELSE [r EXCEPT !.interpreter = set_environment(@, previous_env)]

\* Module::execute_module (module_system.rs:61-121)
execute_module(self, program_, interpreter_) ==
    restore_environment(
        execute_module_stmts(self, program_,
                             create_module_environment(interpreter_)),
        get_environment(interpreter_))

\* pub const <name> = <value>;   pub fn <name>(<params>) { <body> }
PubConst(name, value) ==
    [s |-> "Const", name |-> name, value |-> value, is_public |-> TRUE]
PubFunction(name, params, body) ==
    [s |-> "Function", name |-> name, params |-> params, body |-> body,
     is_public |-> TRUE]

\* The module files on disk, by module name.
Files ==
    [n \in {"counter", "stale", "broken", "reader"} |->
        CASE n = "counter" ->
                \* println("loading counter"); let n = 5; pub const N = n;
                \* fn helper() { }  pub fn get() { println(N); }
                << Println(Lit(StringV("loading counter"))),
                   Let("n", Lit(IntV(5))),
                   PubConst("N", Id("n")),
                   Function("helper", << >>, << >>),
                   PubFunction("get", << >>, << Println(Id("N")) >>) >>
          [] n = "stale" ->
                \* pub const X = 1; X = 2;
                << PubConst("X", Lit(IntV(1))), Assign("X", Lit(IntV(2))) >>
          [] n = "broken" ->
                \* println("loading broken"); let partial = 1; missing = 1;
                << Println(Lit(StringV("loading broken"))),
                   Let("partial", Lit(IntV(1))),
                   Assign("missing", Lit(IntV(1))) >>
          [] n = "reader" ->
                \* pub const Z = x;
                << PubConst("Z", Id("x")) >> ]

\* The tables of init_stdlib (module_system.rs:160-183); of
\* init_collections_module only two constructors are kept.
StdlibModules ==
    Insert(EmptyValues, "collections",
           Insert(Insert(EmptyValues, "HashMap", StdNativeV("HashMap", 0)),
                  "Queue", StdNativeV("Queue", -1)))

\* ModuleRegistry::new; `reads` lists the files read so far.
ModuleRegistry_new ==
    [modules |-> EmptyValues, stdlib_modules |-> StdlibModules, reads |-> << >>]

\* module_system.rs:54-57: `?` leaves on a failed execution, before the
\* module is marked as loaded.
mark_loaded(r, read) ==
    [err |-> r.err,
     self |-> IF r.err = NoError THEN [r.self EXCEPT !.loaded = TRUE]
              ELSE r.self,
     interpreter |-> r.interpreter,
     registry |-> read]

\* Module::load (module_system.rs:37-58), with the registry it reads the
\* file for.
load(self, registry_, interpreter_) ==
    IF self.loaded
    THEN [err |-> NoError, self |-> self, interpreter |-> interpreter_,
          registry |-> registry_]
    ELSE mark_loaded(execute_module(self, Files[self.name], interpreter_),
                     [registry_ EXCEPT !.reads = Append(@, self.name)])

\* ModuleRegistry::find_module_file (module_system.rs:215-235)
find_module_file(name) ==
    IF name \in DOMAIN Files THEN NoError ELSE ModuleNotFound(name)

\* module_system.rs:193-198: the module the registry holds, loaded if it is
\* not, and its exports.
known_module(l, name) ==
    [err |-> l.err, exports |-> l.self.exports,
     self |-> [l.registry EXCEPT !.modules[name] = l.self],
     interpreter |-> l.interpreter]

\* module_system.rs:205-211: `?` leaves on a failed load, before the module
\* is stored.
store_module(l, name) ==
    IF l.err # NoError
    THEN [err |-> l.err, exports |-> EmptyValues,
          self |-> l.registry, interpreter |-> l.interpreter]
    ELSE [err |-> NoError, exports |-> l.self.exports,
          self |-> [l.registry EXCEPT !.modules = Insert(@, name, l.self)],
          interpreter |-> l.interpreter]

\* ModuleRegistry::import_module (module_system.rs:186-212)
import_module(self, name, interpreter_) ==
    IF name \in DOMAIN self.stdlib_modules
    THEN [err |-> NoError, exports |-> self.stdlib_modules[name],
          self |-> self, interpreter |-> interpreter_]
    ELSE IF name \in DOMAIN self.modules
    THEN known_module(load(self.modules[name], self, interpreter_), name)
    ELSE IF find_module_file(name) # NoError
    THEN [err |-> find_module_file(name), exports |-> EmptyValues,
          self |-> self, interpreter |-> interpreter_]
    ELSE store_module(load(Module_new(name), self, interpreter_), name)

(***************************************************************************)
(* The async runtime (stdlib/async_runtime.rs).  A task is the index of    *)
(* its Task in `tasks`: the identity of the Arc<Task>.                     *)
(***************************************************************************)
\* What one poll of a future that is not ready does: `wake` is a call of
\* cx.waker().wake_by_ref() during the poll, `timers` the number of threads
\* the poll starts, each holding a clone of the waker that it calls later.
Step(wake, timers) == [wake |-> wake, timers |-> timers]
\* A future: each poll does the next of `steps` and returns Pending; after
\* them a poll returns Ready(output) if `then` is "Ready", and the last step
\* is done by every later poll if `then` is "Repeat".  `sender` is the
\* sender that the async block of block_on owns.
Future(steps, then, output) ==
    [steps |-> steps, then |-> then, output |-> output, sender |-> FALSE]

\* AsyncRuntime::sleep: every poll of Sleep starts a timer thread and
\* returns Poll::Pending.
Sleep == Future(<< Step(FALSE, 1) >>, "Repeat", NoneV)

\* future.as_mut().poll(&mut context)
poll(future) ==
    IF future.steps = << >>
    THEN [poll |-> "Ready", value |-> future.output, future |-> future,
          step |-> Step(FALSE, 0)]
    ELSE [poll |-> "Pending", value |-> NoneV,
          future |-> IF Len(future.steps) = 1 /\ future.then = "Repeat"
                     THEN future
                     ELSE [future EXCEPT !.steps = Tail(@)],
          step |-> Head(future.steps)]

\* The async block of block_on: the future, and the sender with it.
wrapped_future(future) == [future EXCEPT !.sender = TRUE]

\* Task::new
Task_new(future) == [future |-> Some(future), is_woken |-> FALSE]
\* Task::mark_ready
mark_ready(self) == [self EXCEPT !.is_woken = TRUE]

\* TaskExecutor::new
TaskExecutor_new == [ready_queue |-> << >>, sleeping_tasks |-> << >>]

\* VecDeque::push_front, VecDeque::push_back
push_front(queue, task) == << task >> \o queue
push_back(queue, task) == Append(queue, task)

\* Vec::swap_remove: the element at i is replaced by the last one.
swap_remove(vec, i) ==
    IF i = Len(vec) THEN SubSeq(vec, 1, Len(vec) - 1)
    ELSE [j \in 1..(Len(vec) - 1) |-> IF j = i THEN vec[Len(vec)] ELSE vec[j]]

\* The scan of TaskExecutor::run over the sleeping tasks, from index i:
\* a task whose wake time has come is marked ready and put on the queue.
RECURSIVE wake_sleeping(_, _, _, _)
wake_sleeping(self, tasks_, now, i) ==
    IF i > Len(self.sleeping_tasks)
    THEN [self |-> self, tasks |-> tasks_]
    ELSE IF self.sleeping_tasks[i].wake_time <= now
    THEN LET task == self.sleeping_tasks[i].task
         IN  wake_sleeping(
                 [ready_queue |-> push_back(self.ready_queue, task),
                  sleeping_tasks |-> swap_remove(self.sleeping_tasks, i)],
                 [tasks_ EXCEPT ![task] = mark_ready(@)], now, i)
    ELSE wake_sleeping(self, tasks_, now, i + 1)

\* AsyncRuntime::new, with the tasks and the threads around the executor:
\*   tasks      the Tasks ever created
\*   wakers     per task, the timer threads that hold its waker
\*   pc         where the thread of the executor is: "idle" outside run,
\*              "run" at the head of the loop of run, "polled" between the
\*              return of a poll with Pending and the check of the flag,
\*              "recv" in receiver.recv() of block_on
\*   current    the task the loop has popped
\*   caller     "run" or "block_on"
\*   channel    what was sent over the channel of block_on
\*   result     what block_on returned
\* and what has happened so far:
\*   arrivals   the tasks in the order they were put on the ready queue
\*   polls      the tasks in the order they were polled
\*   fired      per task, whether its waker was called since its last poll
\*              began
\*   in_loop    per task, whether its waker was called since its last poll
\*              while the loop of run was still running
\*   checked    the last check of a flag after Pending: the task, whether
\*              it was put back, whether its waker had been called
\*   marked     how often the loop itself marked a task ready
\*   returned   whether run has returned
\*   awaited    the future block_on was called with, and its task
AsyncRuntime_new ==
    [executor |-> TaskExecutor_new,
     tasks |-> << >>, wakers |-> << >>,
     pc |-> "idle", current |-> None_, caller |-> "run",
     channel |-> None_, result |-> None_,
     arrivals |-> << >>, polls |-> << >>, fired |-> << >>, in_loop |-> << >>,
     checked |-> None_, marked |-> 0, returned |-> FALSE,
     awaited |-> None_, awaited_task |-> None_]

\* TaskExecutor::spawn
TaskExecutor_spawn(self, future) ==
    [self EXCEPT
        !.tasks = Append(@, Task_new(future)),
        !.wakers = Append(@, 0),
        !.fired = Append(@, FALSE),
        !.in_loop = Append(@, FALSE),
        !.executor.ready_queue = push_back(@, Len(self.tasks) + 1),
        !.arrivals = Append(@, Len(self.tasks) + 1)]

\* Who holds an Arc of the task: the queue, the sleeping tasks, the loop,
\* the timer threads.  A task nobody holds is dropped, its future with it.
Holders(self, task) ==
    Cardinality({ i \in DOMAIN self.executor.ready_queue :
                      self.executor.ready_queue[i] = task })
    + Cardinality({ i \in DOMAIN self.executor.sleeping_tasks :
                        self.executor.sleeping_tasks[i].task = task })
    + (IF self.current = Some(task) THEN 1 ELSE 0)
    + self.wakers[task]
Completed(self, task) == self.tasks[task].future = None_

\* async_runtime.rs:108-120, up to the return of the poll: Pending.  The
\* future is put back; the poll has called the waker or started timers.
poll_pending(self, task, p) ==
    [self EXCEPT
        !.tasks[task] = [future |-> Some(p.future),
                         is_woken |-> @.is_woken \/ p.step.wake],
        !.wakers[task] = @ + p.step.timers,
        !.fired[task] = p.step.wake,
        !.in_loop[task] = p.step.wake,
        !.current = Some(task),
        !.pc = "polled"]

\* async_runtime.rs:121-123: Ready.  The future is dropped; the async block
\* of block_on has sent the result before.
poll_ready(self, task, p) ==
    [self EXCEPT
        !.tasks[task].future = None_,
        !.channel = IF p.future.sender THEN Some(p.value) ELSE @,
        !.current = None_,
        !.pc = "run"]

\* async_runtime.rs:101-125: the task popped from the queue is polled.
poll_task(self, task, p) ==
    IF p.poll = "Pending" THEN poll_pending(self, task, p)
    ELSE poll_ready(self, task, p)

\* async_runtime.rs:101-139, after the scan.
process_ready(self) ==
    IF self.executor.ready_queue # << >>
    THEN LET task == Head(self.executor.ready_queue)
             popped == [self EXCEPT !.executor.ready_queue = Tail(@),
                                    !.polls = Append(@, task)]
         IN  IF self.tasks[task].future = None_ THEN popped
             ELSE poll_task(popped, task, poll(self.tasks[task].future[1]))
    ELSE self

\* async_runtime.rs:88-98: the scan, `w` its outcome.
scanned(self, w) ==
    [self EXCEPT
        !.marked = @ + Len(self.executor.sleeping_tasks)
                     - Len(w.self.sleeping_tasks),
        !.arrivals = @ \o SubSeq(w.self.ready_queue,
                                 Len(self.executor.ready_queue) + 1,
                                 Len(w.self.ready_queue)),
        !.executor = w.self,
        !.tasks = w.tasks]

\* TaskExecutor::run, one pass of the loop from its head to the return of
\* the poll, or the return of run.
run_loop(self, now) ==
    IF self.executor.ready_queue = << >> /\ self.executor.sleeping_tasks = << >>
    THEN [self EXCEPT !.pc = IF self.caller = "block_on" THEN "recv" ELSE "idle",
                      !.returned = TRUE]
    ELSE process_ready(
             scanned(self, wake_sleeping(self.executor, self.tasks, now, 1)))

\* async_runtime.rs:112-119: the check of the flag after Pending.
check_woken(self, task) ==
    IF self.tasks[task].is_woken
    THEN [self EXCEPT
            !.tasks[task].is_woken = FALSE,
            !.executor.ready_queue = push_back(@, task),
            !.arrivals = Append(@, task),
            !.checked = Some([task |-> task, requeued |-> TRUE,
                              fired |-> self.fired[task]]),
            !.current = None_,
            !.pc = "run"]
    ELSE [self EXCEPT
            !.checked = Some([task |-> task, requeued |-> FALSE,
                              fired |-> self.fired[task]]),
            !.current = None_,
            !.pc = "run"]

\* Wake for Task, called by a timer thread: `waker.wake()`.
wake(self, task) ==
    [self EXCEPT
        !.tasks[task] = mark_ready(@),
        !.wakers[task] = @ - 1,
        !.fired[task] = TRUE,
        !.in_loop[task] = @ \/ self.pc \in {"run", "polled"}]

\* AsyncRuntime::block_on, up to the call of run.
block_on(self, future) ==
    [TaskExecutor_spawn(self, wrapped_future(future)) EXCEPT
        !.pc = "run", !.caller = "block_on",
        !.channel = None_, !.result = None_,
        !.awaited = Some(future),
        !.awaited_task = Some(Len(self.tasks) + 1)]

\* The sender of the channel of block_on is gone: the async block has
\* completed, or the task was dropped with it.
SenderDropped(self) ==
    \/ Completed(self, self.awaited_task[1])
    \/ Holders(self, self.awaited_task[1]) = 0

\* receiver.recv() of block_on and what block_on returns.
recv(self) ==
    [self EXCEPT
        !.result = IF self.channel # None_
                   THEN Some([err |-> NoError, val |-> self.channel[1]])
                   ELSE Some([err |-> RuntimeError("Future panicked"),
                              val |-> NoneV]),
        !.pc = "idle", !.caller = "run"]

(***************************************************************************)
(* The state machine: Interpreter::interpret (interpreter.rs:175-181)      *)
(* running a program one top-level statement at a time.                    *)
(***************************************************************************)
VARIABLES
    program,       \* the statements interpret has taken from the program so far
    interpreter,   \* the Interpreter
    before,        \* the Interpreter as it was before the last statement
    status,        \* "running", or what interpret returned: "ok" / "err"
    error,         \* the error interpret returned, NoError if none
    registry,      \* the ModuleRegistry
    api,           \* the last call of the trait or module interface, with
                   \* what it returned, and the number of such calls so far
    threads,       \* the OS threads that spawn has started
    runtime        \* the AsyncRuntime, its tasks and timer threads

vars == << program, interpreter, before, status, error, registry, api,
           threads, runtime >>

\* Interpreter::new (interpreter.rs:166-173)
Interpreter_new ==
    [environment |-> Environment_new, stdout |-> << >>, calls |-> << >>,
     fuel |-> MaxFuel, trait_registry |-> TraitRegistry_new]

\* No call of the trait or module interface yet.
NoCall ==
    [n |-> 0, invoked |-> 0, op |-> "", args |-> << >>, err |-> NoError,
     val |-> NoneV, registry |-> ModuleRegistry_new]

Init ==
    /\ program = << >>
    /\ interpreter = Interpreter_new
    /\ before = Interpreter_new
    /\ status = "running"
    /\ error = NoError
    /\ registry = ModuleRegistry_new
    /\ api = NoCall
    /\ threads = << >>
    /\ runtime = AsyncRuntime_new

\* One iteration of the loop of interpret: `self.execute_stmt(stmt)?`.
ExecuteStmt(stmt) ==
    /\ status = "running"
    /\ LET r == self_execute_stmt([interpreter EXCEPT !.fuel = MaxFuel], stmt)
       IN  /\ interpreter' = r.self
           /\ status' = IF IsOk(r) THEN "running" ELSE "err"
           /\ error' = r.err
    /\ program' = Append(program, stmt)
    /\ before' = interpreter
    /\ api' = [api EXCEPT !.op = "execute_stmt"]
    /\ UNCHANGED << registry, threads, runtime >>

\* The loop of interpret has run out of statements: Ok(()).
Finish ==
    /\ status = "running"
    /\ status' = "ok"
    /\ UNCHANGED << program, interpreter, before, error, registry, api,
                    threads, runtime >>

\* The record of a call of the trait or module interface: n counts the
\* calls, invoked those of them that call a method or a value, registry is
\* the ModuleRegistry before the call.
Invocations == {"call_trait_method", "call_value"}
Called(op, args, err, val) ==
    [n |-> api.n + 1,
     invoked |-> api.invoked + (IF op \in Invocations THEN 1 ELSE 0),
     op |-> op, args |-> args, err |-> err, val |-> val,
     registry |-> registry]

\* self.trait_registry.register_trait(trait_def) (traits.rs:234)
RegisterTrait(trait_def) ==
    /\ status = "running"
    /\ interpreter' = [interpreter EXCEPT
                          !.trait_registry = register_trait(@, trait_def)]
    /\ api' = Called("register_trait", << trait_def >>, NoError, NoneV)
    /\ before' = interpreter
    /\ UNCHANGED << program, status, error, registry, threads, runtime >>

\* self.trait_registry.register_impl(impl_def) (traits.rs:253)
RegisterImpl(impl_def) ==
    /\ status = "running"
    /\ LET r == register_impl(interpreter.trait_registry, impl_def)
       IN  /\ interpreter' = [interpreter EXCEPT !.trait_registry = r.self]
           /\ api' = Called("register_impl", << impl_def >>, r.err, NoneV)
    /\ before' = interpreter
    /\ UNCHANGED << program, status, error, registry, threads, runtime >>

\* interpreter.call_trait_method(object, trait_name, method_name, args)
CallTraitMethod(object, trait_name, method_name, args) ==
    /\ status = "running"
    /\ LET r == call_trait_method([interpreter EXCEPT !.fuel = MaxFuel],
                                  object, trait_name, method_name, args)
       IN  /\ interpreter' = r.self
           /\ api' = Called("call_trait_method",
                            << object, trait_name, method_name, args >>,
                            r.err, r.val)
    /\ before' = interpreter
    /\ UNCHANGED << program, status, error, registry, threads, runtime >>

\* The call of a value by a call expression whose callee evaluates to
\* `callee` and whose arguments evaluate to `args`.
CallValue(callee, args) ==
    /\ status = "running"
    /\ LET r == call_value([interpreter EXCEPT !.fuel = MaxFuel], callee, args)
       IN  /\ interpreter' = r.self
           /\ api' = Called("call_value", << callee, args >>, r.err, r.val)
    /\ before' = interpreter
    /\ UNCHANGED << program, status, error, registry, threads, runtime >>

\* registry.import_module(name, interpreter)
Imported(name, r) ==
    /\ interpreter' = r.interpreter
    /\ registry' = r.self
    /\ api' = Called("import_module", << name >>, r.err, ObjectV(r.exports))
ImportModule(name) ==
    /\ status = "running"
    /\ Imported(name, import_module(registry, name,
                                    [interpreter EXCEPT !.fuel = MaxFuel]))
    /\ before' = interpreter
    /\ UNCHANGED << program, status, error, threads, runtime >>

(***************************************************************************)
(* OS threads (stdlib/concurrent.rs).                                      *)
(***************************************************************************)
\* An Interpreter that starts from nothing the spawner has.
clone_nothing(self) ==
    [self EXCEPT !.environment = Environment_new,
                 !.stdout = << >>, !.calls = << >>, !.fuel = MaxFuel]

\* Interpreter::clone (interpreter.rs:1093-1106): the environment is cloned.
\* `stdout` of the clone is what the thread itself writes.
clone(self) ==
    [self EXCEPT !.stdout = << >>, !.calls = << >>, !.fuel = MaxFuel]

\* The thread that the closure of spawn starts (concurrent.rs:213-229):
\* `at` is its position in `thread_interpreter.call_value(&func, &[])`, 0
\* before the call; `origin` is the Interpreter of the spawner at the spawn.
Thread_new(thread_interpreter, func, origin) ==
    [interpreter |-> thread_interpreter, func |-> func, at |-> 0,
     previous_env |-> thread_interpreter.environment,
     done |-> FALSE, result |-> NoError, origin |-> origin]

\* The native function spawn (concurrent.rs:202-231)
concurrent_spawn(args, interpreter_) ==
    IF Len(args) # 1
    THEN [err |-> RuntimeError("spawn() takes 1 argument, but "
                               \o ToString(Len(args)) \o " were given"),
          thread |-> None_]
    ELSE IF args[1].t # "Function"
    THEN [err |-> RuntimeError("spawn() requires a function argument"),
          thread |-> None_]
    ELSE [err |-> NoError,
          thread |-> Some(Thread_new(clone(interpreter_), args[1],
                                     interpreter_))]

\* The Value::Function arm of the call (interpreter.rs:449-479) in the
\* thread, a step at a time: the frame, each statement of the body, the
\* return.
thread_enter(self) ==
    IF Len(self.func.params) # 0
    THEN [self EXCEPT !.done = TRUE,
                      !.result = RuntimeError(
                          "Expected " \o ToString(Len(self.func.params))
                          \o " arguments but got 0")]
    ELSE [self EXCEPT !.previous_env = self.interpreter.environment,
                      !.interpreter.environment = with_parent(self.func.closure),
                      !.at = 1]
thread_executed(self, r) ==
    IF ~IsOk(r)
    THEN [self EXCEPT !.interpreter = r.self, !.done = TRUE, !.result = r.err]
    ELSE [self EXCEPT !.interpreter = r.self, !.at = @ + 1]
thread_step(self) ==
    IF self.at = 0 THEN thread_enter(self)
    ELSE IF self.at > Len(self.func.body)
    THEN [self EXCEPT !.interpreter.environment = self.previous_env,
                      !.done = TRUE]
    ELSE thread_executed(
             self,
             self_execute_stmt([self.interpreter EXCEPT !.fuel = MaxFuel],
                               self.func.body[self.at]))

\* spawn(<name>) by the main thread, its argument evaluated.
ThreadSpawned(r) ==
    /\ threads' = IF r.err = NoError THEN Append(threads, r.thread[1])
                  ELSE threads
    /\ api' = Called("spawn", << >>, r.err, NoneV)
Spawn(name) ==
    /\ status = "running"
    /\ get(interpreter.environment, name).err = NoError
    /\ ThreadSpawned(concurrent_spawn(<< get(interpreter.environment, name).val >>,
                                      interpreter))
    /\ before' = interpreter
    /\ UNCHANGED << program, interpreter, status, error, registry, runtime >>

\* A step of the thread i.
ThreadStep(i) ==
    /\ ~threads[i].done
    /\ threads' = [threads EXCEPT ![i] = thread_step(@)]
    /\ UNCHANGED << program, interpreter, before, status, error, registry, api,
                    runtime >>

(***************************************************************************)
(* The calls of the async runtime, the steps of the thread of the          *)
(* executor and of the timer threads.  Nothing calls TaskExecutor::sleep   *)
(* (async_runtime.rs:79-82): no caller can hold the Arc<Task> it takes.    *)
(***************************************************************************)
interpreterVars ==
    << program, interpreter, before, status, error, registry, api, threads >>

\* executor.spawn(future)
SpawnTask(future) ==
    /\ runtime.pc = "idle"
    /\ runtime' = TaskExecutor_spawn(runtime, future)
    /\ UNCHANGED interpreterVars

\* executor.run() is called.
Run ==
    /\ runtime.pc = "idle"
    /\ runtime' = [runtime EXCEPT !.pc = "run", !.caller = "run"]
    /\ UNCHANGED interpreterVars

\* runtime.block_on(future) is called.
BlockOn(future) ==
    /\ runtime.pc = "idle"
    /\ runtime' = block_on(runtime, future)
    /\ UNCHANGED interpreterVars

\* One pass of the loop of run, at the instant `now`.
RunLoop(now) ==
    /\ runtime.pc = "run"
    /\ runtime' = run_loop(runtime, now)
    /\ UNCHANGED interpreterVars

\* The check of the flag after a poll returned Pending.
CheckWoken ==
    /\ runtime.pc = "polled"
    /\ runtime' = check_woken(runtime, runtime.current[1])
    /\ UNCHANGED interpreterVars

\* A timer thread calls the waker of the task.
Wake(task) ==
    /\ runtime.wakers[task] > 0
    /\ runtime' = wake(runtime, task)
    /\ UNCHANGED interpreterVars

\* receiver.recv() of block_on returns: a result was sent, or the sender
\* is gone.
Recv ==
    /\ runtime.pc = "recv"
    /\ runtime.channel # None_ \/ SenderDropped(runtime)
    /\ runtime' = recv(runtime)
    /\ UNCHANGED interpreterVars

(***************************************************************************)
(* What the last statement did.                                            *)
(***************************************************************************)
Executed == Len(program) > 0
LastStmt == program[Len(program)]
\* The chunks the last statement wrote to stdout.
LastStdout ==
    SubSeq(interpreter.stdout, Len(before.stdout) + 1, Len(interpreter.stdout))
Defined(env, name) == get(env, name).err = NoError
Lookup(env, name) == get(env, name).val
Written(chunk, out) == \E i \in DOMAIN out : out[i] = chunk
CallStmt(f, args) == ExprStmt(Call(Id(f), args))

(***************************************************************************)
(* Programs about scopes and closures.                                     *)
(***************************************************************************)
\* fn reader() { println(x); }
FnReader == Function("reader", << >>, << Println(Id("x")) >>)
\* fn writer() { x = 7; }
FnWriter == Function("writer", << >>, << Assign("x", Lit(IntV(7))) >>)
\* fn via_call(x) { reader(); }
FnViaCall == Function("via_call", << "x" >>, << CallStmt("reader", << >>) >>)
\* fn via_pipeline(x) { 0 |> reader(); }
FnViaPipeline ==
    Function("via_pipeline", << "x" >>,
        << ExprStmt(PipelineChain(Lit(IntV(0)), << Call(Id("reader"), << >>) >>)) >>)
\* fn via_method(x) { S { m: reader }?.m(); }
FnViaMethod ==
    Function("via_method", << "x" >>,
        << ExprStmt(OptionalChain(
               StructInit("S", << Field("m", Id("reader")) >>),
               << MethodItem("m", << >>) >>)) >>)
CallerNames == {"via_call", "via_pipeline", "via_method"}
\* for v in [1] { y = 3; }
ForAssignY == For("v", Lit(ListV(<< IntV(1) >>)), << Assign("y", Lit(IntV(3))) >>)

ScopeStmts ==
    { Let("x", Lit(IntV(1))),
      Assign("x", Lit(IntV(2))),
      ForAssignY,
      FnReader, FnWriter, FnViaCall, FnViaPipeline, FnViaMethod,
      CallStmt("reader", << >>),
      CallStmt("writer", << >>),
      Println(Id("x")) }
    \cup { CallStmt(f, << Lit(IntV(5)) >>) : f \in CallerNames }

NextScope ==
    \/ \E stmt \in ScopeStmts : Len(program) < MaxStmts /\ ExecuteStmt(stmt)
    \/ Finish
Spec == Init /\ [][NextScope]_vars

\* C1: on every call path (call expression, optional-chain method call,
\* pipeline step) a user function's body runs in a frame whose parent is
\* the environment the function captured at its definition; a free name of
\* the body that only the caller's scope binds is not resolved to the
\* caller's binding: reader's x is never the 5 that a caller was passed
\* when the environment reader captured does not define x.
C1_CallsRunInCapturedEnvironment ==
    /\ \A i \in DOMAIN interpreter.calls :
           interpreter.calls[i].frame_parent = interpreter.calls[i].captured
    /\ \A f \in CallerNames :
           ( /\ Executed
             /\ LastStmt = CallStmt(f, << Lit(IntV(5)) >>)
             /\ Defined(before.environment, f)
             /\ Defined(Lookup(before.environment, f).closure, "reader")
             /\ ~Defined(Lookup(Lookup(before.environment, f).closure,
                                "reader").closure, "x") )
           => ~Written("5\n", LastStdout)

\* C2: a closure and the scope it captured share their bindings.  When
\* reader was defined in the global scope with x bound, a call of reader
\* prints the value x has in that scope at the time of the call; when writer
\* was, x reads 7 in that scope after a call of writer.
C2_ClosureSharesBindings ==
    ( /\ Executed
      /\ status = "running"
      /\ Defined(before.environment, "x") )
    => /\ ( /\ LastStmt = CallStmt("reader", << >>)
            /\ Defined(before.environment, "reader")
            /\ Defined(Lookup(before.environment, "reader").closure, "x") )
          => LastStdout
               = << to_string(Lookup(before.environment, "x")) \o "\n" >>
       /\ ( /\ LastStmt = CallStmt("writer", << >>)
            /\ Defined(before.environment, "writer")
            /\ Defined(Lookup(before.environment, "writer").closure, "x") )
          => Lookup(interpreter.environment, "x") = IntV(7)

\* The top-level statements of ScopeStmts that assign, and the name assigned.
AssignedName(stmt) ==
    CASE stmt.s = "Assign" -> << stmt.target.name >>
      [] stmt = CallStmt("writer", << >>) -> << "x" >>
      [] stmt = ForAssignY -> << "y" >>
      [] OTHER -> << >>
\* The environment in which the assignment of the last statement ran.
AssignedIn(stmt) ==
    CASE stmt.s = "Assign" -> before.environment
      [] stmt = CallStmt("writer", << >>) ->
            with_parent(Lookup(before.environment, "writer").closure)
      [] stmt = ForAssignY ->
            define(with_parent(before.environment), "v", IntV(1))

\* C3: an assignment to a name that no frame of the current environment
\* chain defines (at top level, in a for body, in a function body) returns
\* an error, leaves every frame of the chain as it was and does not create
\* the binding.
C3_AssignUndefinedIsError ==
    ( /\ Executed
      /\ AssignedName(LastStmt) # << >>
      /\ (LastStmt = CallStmt("writer", << >>)
             => Defined(before.environment, "writer"))
      /\ ~Defined(AssignedIn(LastStmt), AssignedName(LastStmt)[1]) )
    => /\ status = "err"
       /\ error = UndefinedVariable(AssignedName(LastStmt)[1])
       /\ interpreter.environment = AssignedIn(LastStmt)
       /\ ~Defined(interpreter.environment, AssignedName(LastStmt)[1])

\* C3's case at top level, inside a for body, and inside a function body.
C3_Witness ==
    /\ Executed
    /\ status = "err"
    /\ error.kind = "UndefinedVariable"
    /\ \/ LastStmt.s = "Assign" /\ Len(program) > 1
       \/ LastStmt = ForAssignY
       \/ LastStmt = CallStmt("writer", << >>)

(***************************************************************************)
(* Programs about blocks and control flow.                                 *)
(***************************************************************************)
True == Lit(BoolV(TRUE))
OneTwo == Lit(ListV(<< IntV(1), IntV(2) >>))
\* The statement no run should reach: it follows a break, continue or return.
Unreachable == Println(Lit(IntV(9)))

\* if true { let <name> = 4; }
IfLet(name) == If(True, << Let(name, Lit(IntV(4))) >>, None_)
\* for v in [1, 2] { let <name> = 4; }
ForLet(name) == For("v", OneTwo, << Let(name, Lit(IntV(4))) >>)
\* while x < 2 { let z = 4; x = x + 1; }
WhileLet ==
    While(BinaryOp(Id("x"), "Lt", Lit(IntV(2))),
          << Let("z", Lit(IntV(4))),
             Assign("x", BinaryOp(Id("x"), "Add", Lit(IntV(1)))) >>)
\* fn scoped() { let z = 4; let x = 4; }
FnScoped ==
    Function("scoped", << >>, << Let("z", Lit(IntV(4))), Let("x", Lit(IntV(4))) >>)
\* The statements that let a name inside a block, with the names they let.
BlockLets ==
    { [stmt |-> IfLet(n), lets |-> {n}] : n \in {"x", "z"} }
    \cup { [stmt |-> ForLet(n), lets |-> {n}] : n \in {"x", "z"} }
    \cup { [stmt |-> WhileLet, lets |-> {"z"}],
           [stmt |-> CallStmt("scoped", << >>), lets |-> {"x", "z"}] }

\* fn early() { return 1; println(9); }
FnEarly == Function("early", << >>, << Return(Some(Lit(IntV(1)))), Unreachable >>)
\* fn nested() { for v in [1, 2] { if true { return 2; } } println(9); }
FnNested ==
    Function("nested", << >>,
        << For("v", OneTwo, << If(True, << Return(Some(Lit(IntV(2)))) >>, None_) >>),
           Unreachable >>)
\* fn falls() { println(8); }
FnFalls == Function("falls", << >>, << Println(Lit(IntV(8))) >>)
\* What `let r = f();` is to bind r to and to print, by the claim.
Returning ==
    { [def |-> FnEarly, name |-> "early", value |-> IntV(1), out |-> << >>],
      [def |-> FnNested, name |-> "nested", value |-> IntV(2), out |-> << >>],
      [def |-> FnFalls, name |-> "falls", value |-> NoneV, out |-> << "8\n" >>] }

\* The loops, with what each is to print by the claim.
\* for v in [1, 2] { break; println(9); }
ForBreak == For("v", OneTwo, << Break, Unreachable >>)
\* for v in [1, 2] { println(v); continue; println(9); }
ForContinue == For("v", OneTwo, << Println(Id("v")), Continue, Unreachable >>)
\* for a in [1, 2] { for b in [1, 2] { break; println(9); } println(a); }
ForNested ==
    For("a", OneTwo, << For("b", OneTwo, << Break, Unreachable >>),
                        Println(Id("a")) >>)
\* while true { break; println(9); }
WhileBreak == While(True, << Break, Unreachable >>)
\* loop { break; println(9); }
LoopBreak == Loop(<< Break, Unreachable >>)
Loops ==
    { [stmt |-> ForBreak, out |-> << >>],
      [stmt |-> ForContinue, out |-> << "1\n", "2\n" >>],
      [stmt |-> ForNested, out |-> << "1\n", "2\n" >>],
      [stmt |-> WhileBreak, out |-> << >>] }

\* break / continue / return outside every loop and function.
Strays ==
    { Break, Continue, Return(None_), Return(Some(Lit(IntV(1)))),
      If(True, << Break >>, None_) }
HasStray(stmts) == \E i \in DOMAIN stmts : stmts[i] \in Strays

BlockStmts ==
    { Let("x", Lit(IntV(1))), FnScoped }
    \cup { b.stmt : b \in BlockLets }
    \cup { r.def : r \in Returning }
    \cup { Let("r", Call(Id(r.name), << >>)) : r \in Returning }
    \cup { l.stmt : l \in Loops }
    \cup { LoopBreak }
    \cup Strays

NextBlocks ==
    \/ \E stmt \in BlockStmts : Len(program) < MaxBlockStmts /\ ExecuteStmt(stmt)
    \/ Finish
SpecBlocks == Init /\ [][NextBlocks]_vars

\* C4: a name let inside an if / while / for body or a function body is
\* defined in the innermost frame only and is gone once that body has
\* exited: whatever the name was bound to outside the body (a value, or
\* nothing) is what it is bound to after the statement.
C4_LetIsScopedToItsBlock ==
    \A b \in BlockLets :
        ( /\ Executed
          /\ LastStmt = b.stmt
          /\ status = "running" )
        => \A n \in b.lets :
               get(interpreter.environment, n) = get(before.environment, n)

\* C5: a return inside a function body, at any nesting depth, ends the
\* call: no later statement of the body runs and the call evaluates to the
\* returned value; a body that falls off its end evaluates to none.
C5_ReturnEndsTheCall ==
    \A r \in Returning :
        ( /\ Executed
          /\ LastStmt = Let("r", Call(Id(r.name), << >>))
          /\ Defined(before.environment, r.name) )
        => /\ status = "running"
           /\ Lookup(interpreter.environment, "r") = r.value
           /\ LastStdout = r.out

\* C6: break ends exactly the nearest enclosing loop, continue skips the
\* rest of exactly that iteration, the statements after them in the body
\* do not run and an outer loop keeps iterating: each loop ends and prints
\* what its reachable statements print.
C6_BreakContinueNearestLoop ==
    \A l \in Loops :
        (Executed /\ LastStmt = l.stmt)
        => /\ status = "running"
           /\ LastStdout = l.out

\* C7: interpret does not return Ok for a program in which a break, continue
\* or return reaches top level.
C7_StraySignalIsAnError ==
    status = "ok" => ~HasStray(program)

(***************************************************************************)
(* Programs about expressions: logical operators, division, match.         *)
(***************************************************************************)
\* 1 / 0 == 1: an operand whose evaluation fails.
Failing == BinaryOp(BinaryOp(Lit(IntV(1)), "Div", Lit(IntV(0))), "Eq", Lit(IntV(1)))
\* println(9) == none: an operand whose evaluation writes to stdout.
Printing == BinaryOp(Call(Id("println"), << Lit(IntV(9)) >>), "Eq", Lit(NoneV))
RightOperands ==
    { Failing, Printing, Id("missing"), Lit(BoolV(TRUE)), Lit(BoolV(FALSE)) }
\* let r = <a> && <rhs>;  let r = <a> || <rhs>;
Logical(a, op, rhs) == Let("r", BinaryOp(Lit(BoolV(a)), op, rhs))
LogicalStmts ==
    { Logical(a, op, rhs) : a \in BOOLEAN, op \in {"And", "Or"}, rhs \in RightOperands }
\* The left operand alone decides the result.
Decides(a, op) == (op = "And" /\ ~a) \/ (op = "Or" /\ a)

Numerators == { IntV(5), IntV(-7), IntV(0), FloatV(5, 2) }
Zeros == { IntV(0), FloatV(0, 1) }
Denominators == Zeros \cup { IntV(2), FloatV(5, 2) }
\* let r = <n> / <d>;  let r = <n> % <d>;
Arith(n, op, d) == Let("r", BinaryOp(Lit(n), op, Lit(d)))
ArithStmts ==
    { Arith(n, op, d) : n \in Numerators, op \in {"Div", "Mod"}, d \in Denominators }

\* The arm lists: literals then a wildcard, literals only, a wildcard first.
ArmLists ==
    { << LiteralPattern(IntV(1)), LiteralPattern(IntV(2)), Wildcard >>,
      << LiteralPattern(IntV(1)), LiteralPattern(IntV(2)) >>,
      << Wildcard, LiteralPattern(IntV(1)) >>,
      << LiteralPattern(IntV(1)), LiteralPattern(IntV(1)) >> }
Scrutinees == { IntV(1), IntV(2), IntV(3) }
ArmBlock(pattern, body) == [pattern |-> pattern, body |-> body]
\* let r = match <v> { p1 => 1, p2 => 2, ... };
LetMatch(v, ps) ==
    Let("r", MatchExpr(Lit(v), [i \in DOMAIN ps |-> Arm(ps[i], Lit(IntV(i)))]))
\* match <v> { p1 => { println(1); } p2 => { println(2); } ... }
DoMatch(v, ps) ==
    MatchStmt(Lit(v), [i \in DOMAIN ps |-> ArmBlock(ps[i], << Println(Lit(IntV(i))) >>)])
MatchStmts ==
    { LetMatch(v, ps) : v \in Scrutinees, ps \in ArmLists }
    \cup { DoMatch(v, ps) : v \in Scrutinees, ps \in ArmLists }
\* The arms of ps that take v, by position.
Taking(v, ps) ==
    { i \in DOMAIN ps : ps[i] = Wildcard \/ ps[i] = LiteralPattern(v) }
FirstTaking(v, ps) ==
    CHOOSE i \in Taking(v, ps) : \A j \in Taking(v, ps) : i <= j

ExprStmts == LogicalStmts \cup ArithStmts \cup MatchStmts

NextExpr ==
    \/ \E stmt \in ExprStmts : Len(program) < MaxExprStmts /\ ExecuteStmt(stmt)
    \/ Finish
SpecExpr == Init /\ [][NextExpr]_vars

\* C8: && and || short-circuit: when the left operand decides the result
\* (false && _, true || _) the right operand is not evaluated, so it can
\* neither fail nor write, and the result is the left operand.
C8_LogicalOperatorsShortCircuit ==
    \A a \in BOOLEAN, op \in {"And", "Or"}, rhs \in RightOperands :
        ( /\ Executed
          /\ LastStmt = Logical(a, op, rhs)
          /\ Decides(a, op) )
        => /\ status = "running"
           /\ Lookup(interpreter.environment, "r") = BoolV(a)
           /\ LastStdout = << >>

\* C9: for every numeric left operand, division and modulo by integer zero
\* and by floating-point zero fail with a RuntimeError.
C9_ZeroDivisorIsRuntimeError ==
    \A n \in Numerators, op \in {"Div", "Mod"}, z \in Zeros :
        (Executed /\ LastStmt = Arith(n, op, z))
        => /\ status = "err"
           /\ error.kind = "RuntimeError"

\* C10: a match, as an expression or as a statement, runs the first arm in
\* source order whose pattern takes the value, and fails with a
\* PatternMatchError when no arm does; it is never a silent no-op.
C10_MatchTriesArmsInOrder ==
    \A v \in Scrutinees, ps \in ArmLists :
        /\ (Executed /\ LastStmt = LetMatch(v, ps))
           => IF Taking(v, ps) = {}
              THEN status = "err" /\ error.kind = "PatternMatchError"
              ELSE /\ status = "running"
                   /\ Lookup(interpreter.environment, "r") = IntV(FirstTaking(v, ps))
        /\ (Executed /\ LastStmt = DoMatch(v, ps))
           => IF Taking(v, ps) = {}
              THEN status = "err" /\ error.kind = "PatternMatchError"
              ELSE /\ status = "running"
                   /\ LastStdout = << IntToString(FirstTaking(v, ps)) \o "\n" >>

(***************************************************************************)
(* Programs about patterns and about equality.                             *)
(***************************************************************************)
\* P { a: 5, b: 2 }
Point == StructInit("P", << Field("a", Lit(IntV(5))), Field("b", Lit(IntV(2))) >>)
\* P { a: <name>, b: <b> }: binds <name>, then takes the value only if b is <b>.
BindThenTest(name, b) ==
    DestructurePattern("", << FieldPattern("a", IdentifierPattern(name)),
                               FieldPattern("b", LiteralPattern(IntV(b))) >>)
\* let r = match P { a: 5, b: 2 } { <p1> => 1, <p2> => 2, ... };
MatchPoint(ps) ==
    Let("r", MatchExpr(Point, [i \in DOMAIN ps |-> Arm(ps[i], Lit(IntV(i)))]))
\* The matches on Point, each with the value r is bound to (0: no arm takes
\* the value) and the names that only failed patterns bind.
Leaks ==
    { [stmt |-> MatchPoint(<< BindThenTest("x", 1) >>),
       arm |-> 0, failed |-> {"x"}],
      [stmt |-> MatchPoint(<< BindThenTest("x", 1), Wildcard >>),
       arm |-> 2, failed |-> {"x"}],
      [stmt |-> MatchPoint(<< BindThenTest("x", 1), BindThenTest("y", 2) >>),
       arm |-> 2, failed |-> {"x"}],
      [stmt |-> MatchPoint(<< OrPattern(<< BindThenTest("x", 1),
                                           BindThenTest("y", 2) >>) >>),
       arm |-> 1, failed |-> {"x"}],
      [stmt |-> MatchPoint(<< OrPattern(<< BindThenTest("x", 1),
                                           BindThenTest("y", 3) >>),
                              IdentifierPattern("z") >>),
       arm |-> 2, failed |-> {"x", "y"}],
      [stmt |-> MatchPoint(<< LiteralPattern(IntV(1)), BindThenTest("y", 2) >>),
       arm |-> 2, failed |-> {}] }

MatchingStmts ==
    { l.stmt : l \in Leaks } \cup { Let("x", Lit(IntV(1))) }

\* C11: a pattern that fails leaves the environment as it was: when no arm
\* takes the value the match fails with the environment unchanged, and when
\* a later arm or alternative takes it, the names that only the failed arms,
\* alternatives and sub-patterns bind are bound to what they were bound to
\* before the match.
C11_FailedPatternBindsNothing ==
    \A l \in Leaks :
        (Executed /\ LastStmt = l.stmt)
        => /\ l.arm = 0 => /\ status = "err"
                           /\ error.kind = "PatternMatchError"
                           /\ interpreter.environment = before.environment
           /\ l.arm # 0 => /\ status = "running"
                           /\ Lookup(interpreter.environment, "r") = IntV(l.arm)
                           /\ \A n \in l.failed :
                                  get(interpreter.environment, n)
                                      = get(before.environment, n)

\* The values compared: every kind a literal evaluates to.
EqValues ==
    { IntV(1), IntV(2), BoolV(TRUE), StringV("a"), CharV("c"), NoneV,
      ListV(<< IntV(1), IntV(2) >>), ListV(<< IntV(1), IntV(3) >>) }
\* let r = <a> == <b>;
LetEquals(a, b) == Let("r", BinaryOp(Lit(a), "Eq", Lit(b)))
\* let r = match <a> { <b> => true, _ => false };
LetTakes(a, b) ==
    Let("r", MatchExpr(Lit(a), << Arm(LiteralPattern(b), Lit(BoolV(TRUE))),
                                  Arm(Wildcard, Lit(BoolV(FALSE))) >>))
\* fn f() { }   let r = f == f;
FnF == Function("f", << >>, << >>)
LetSameFn == Let("r", BinaryOp(Id("f"), "Eq", Id("f")))
EqualityStmts ==
    { LetEquals(a, b) : a \in EqValues, b \in EqValues }
    \cup { LetTakes(a, b) : a \in EqValues, b \in EqValues }
    \cup { FnF, LetSameFn }

MatchStmtsOfSpec == MatchingStmts \cup EqualityStmts
NextMatch ==
    \/ \E stmt \in MatchStmtsOfSpec :
           Len(program) < MaxMatchStmts /\ ExecuteStmt(stmt)
    \/ Finish
SpecMatch == Init /\ [][NextMatch]_vars

\* C13: == and literal patterns agree and are structural on Int, Bool,
\* String, Char, None and List values: a == b, and `match a { b => .. }`
\* taking its first arm, are true exactly when a and b are the same value;
\* a function value is not equal to itself.
C13_EqualityIsStructural ==
    /\ \A a \in EqValues, b \in EqValues :
           /\ (Executed /\ LastStmt = LetEquals(a, b))
              => /\ status = "running"
                 /\ Lookup(interpreter.environment, "r") = BoolV(a = b)
           /\ (Executed /\ LastStmt = LetTakes(a, b))
              => /\ status = "running"
                 /\ Lookup(interpreter.environment, "r") = BoolV(a = b)
    /\ ( /\ Executed
         /\ LastStmt = LetSameFn
         /\ Defined(before.environment, "f") )
       => /\ status = "running"
          /\ Lookup(interpreter.environment, "r") = BoolV(FALSE)

(***************************************************************************)
(* Traits and native functions: registrations followed by calls.           *)
(***************************************************************************)
\* trait Show { fn to_string(self); fn describe(self) { println(self); } }
Show ==
    Trait("Show",
          Insert(Insert(EmptyValues,
              "to_string", TraitMethod("to_string", << "self" >>, None_)),
              "describe", TraitMethod("describe", << "self" >>,
                                      Some(<< Println(Id("self")) >>))))
\* trait Marker { }
Marker == Trait("Marker", EmptyValues)
\* fn to_string(self) { println(self); }
FnShow == FunctionV("to_string", << "self" >>, << Println(Id("self")) >>,
                    Environment_new)
\* fn to_string(self, suffix) { println(self); println(suffix); }
FnShowWith ==
    FunctionV("to_string", << "self", "suffix" >>,
              << Println(Id("self")), Println(Id("suffix")) >>, Environment_new)
Methods(to_string_) == Insert(EmptyValues, "to_string", to_string_)
Impls ==
    { TraitImpl("Show", "int", Methods(TraitFunctionV(FnShow, 1))),
      TraitImpl("Show", "string", Methods(TraitFunctionV(FnShowWith, 2))),
      TraitImpl("Show", "list", Methods(TraitFunctionV(FnShow, -1))),
      TraitImpl("Show", "Point",
                Insert(Methods(StdNativeV("size", 1)),
                       "describe", StdNativeV("Queue", -1))),
      TraitImpl("Show", "bool",
                Insert(EmptyValues, "describe", TraitFunctionV(FnShow, 1))),
      TraitImpl("Marker", "int", EmptyValues),
      TraitImpl("Eq", "int", Methods(TraitFunctionV(FnShow, 1))) }
PointObject ==
    ObjectV(Insert(Insert(EmptyValues, "__type", StringV("Point")),
                   "a", IntV(5)))
Receivers ==
    { IntV(1), StringV("s"), BoolV(TRUE), ListV(<< IntV(1) >>), PointObject }
MethodNames == {"to_string", "describe", "nope"}
ArgLists == { << >>, << IntV(7) >>, << IntV(7), IntV(8) >> }
StdNatives == { StdNativeV("HashMap", 0), StdNativeV("Queue", -1),
                StdNativeV("size", 1) }

NextTraits ==
    \/ \E t \in {Show, Marker} :
           api.n - api.invoked < MaxRegistrations /\ RegisterTrait(t)
    \/ \E i \in Impls :
           api.n - api.invoked < MaxRegistrations /\ RegisterImpl(i)
    \/ \E o \in Receivers, m \in MethodNames, a \in ArgLists :
           api.invoked < MaxInvocations /\ CallTraitMethod(o, "Show", m, a)
    \/ \E f \in StdNatives, a \in ArgLists :
           api.invoked < MaxInvocations /\ CallValue(f, a)
    \/ Finish
SpecTraits == Init /\ [][NextTraits]_vars

\* The impl method that a call of trait_name.method_name on `object`
\* resolves to in the registry `reg`, if any.
Resolved(reg, object, trait_name, method_name) ==
    get_trait_method(reg, trait_name, receiver_type(object).name, method_name)
\* Nothing ran: no output, no function body entered, same environment.
NothingRan ==
    /\ interpreter.stdout = before.stdout
    /\ interpreter.calls = before.calls
    /\ interpreter.environment = before.environment

\* C12: a call of a native function checks its arity contract first, in a
\* call expression and in trait dispatch: with arity N >= 0 and another
\* number of arguments the call is a RuntimeError and the function does not
\* run; with arity -1 the function runs.
C12_NativeArityIsChecked ==
    /\ (api.op = "call_value" /\ api.args[1].t = "NativeFunction")
       => LET f == api.args[1]
              given == Len(api.args[2])
          IN  /\ (f.arity >= 0 /\ given # f.arity)
                 => api.err.kind = "RuntimeError" /\ api.val = NoneV
              /\ f.name = "Queue" => api.err = NoError
    /\ ( /\ api.op = "call_trait_method"
         /\ Resolved(before.trait_registry, api.args[1], api.args[2],
                     api.args[3]) # None_ )
       => LET f == Resolved(before.trait_registry, api.args[1], api.args[2],
                            api.args[3])[1]
              given == 1 + Len(api.args[4])
          IN  (f.t = "NativeFunction" /\ f.arity >= 0 /\ given # f.arity)
              => api.err = WrongArity(f.arity, given) /\ NothingRan

\* C14: register_impl(def) fails with a TraitError and leaves the traits
\* and the impls of the registry as they were exactly when def's trait is
\* not registered or a method of the trait has neither an entry in
\* def.methods nor a default body; otherwise it succeeds and
\* implements(trait, type) is true afterwards.
C14_RegisterImplChecksTheTrait ==
    api.op = "register_impl"
    => LET def == api.args[1]
           reg == before.trait_registry
           rejected ==
               \/ def.trait_name \notin DOMAIN reg.traits
               \/ \E m \in DOMAIN reg.traits[def.trait_name].methods :
                      /\ m \notin DOMAIN def.methods
                      /\ reg.traits[def.trait_name].methods[m].default_impl = None_
       IN  IF rejected
           THEN /\ api.err.kind = "TraitError"
                /\ interpreter.trait_registry = reg
           ELSE /\ api.err = NoError
                /\ implements_trait(interpreter.trait_registry,
                                    def.trait_name, def.type_name)

\* C15: a call through call_trait_method of a method that the registered
\* impl of the receiver's type omits and the trait defines with a default
\* body succeeds and runs the default body with the receiver as its first
\* argument (here the default body of Show.describe prints it).
C15_DefaultMethodIsCalled ==
    ( /\ api.op = "call_trait_method"
      /\ api.args[3] = "describe"
      /\ receiver_type(api.args[1]).err = NoError
      /\ LET key == << "Show", receiver_type(api.args[1]).name >>
         IN  /\ key \in DOMAIN before.trait_registry.impls
             /\ "describe" \notin DOMAIN before.trait_registry.impls[key].methods )
    => /\ api.err = NoError
       /\ LastStdout = << to_string(api.args[1]) \o "\n" >>

\* C16: call_trait_method on a receiver whose type has no registered impl
\* of the trait fails with a TraitError, runs nothing and leaves the
\* registry and the environment as they were.
C16_NoImplIsTraitError ==
    ( /\ api.op = "call_trait_method"
      /\ ~implements_trait(before.trait_registry, api.args[2],
                           receiver_type(api.args[1]).name) )
    => /\ api.err.kind = "TraitError"
       /\ NothingRan
       /\ interpreter.trait_registry = before.trait_registry

\* C17: call_trait_method enforces the arity contract of the method it
\* resolved before it invokes it, and invokes it with the receiver in front
\* of the caller's arguments: with arity N >= 0 and 1 + |args| # N the call
\* is a RuntimeError and nothing runs; otherwise a function method runs with
\* its first parameter bound to the receiver and the following ones to the
\* arguments, and a native method is applied to << receiver >> \o args.
C17_TraitCallPrependsReceiver ==
    ( /\ api.op = "call_trait_method"
      /\ Resolved(before.trait_registry, api.args[1], api.args[2],
                  api.args[3]) # None_ )
    => LET object == api.args[1]
           args == api.args[4]
           method == Resolved(before.trait_registry, object, api.args[2],
                              api.args[3])[1]
       IN  IF method.arity >= 0 /\ 1 + Len(args) # method.arity
           THEN /\ api.err.kind = "RuntimeError"
                /\ NothingRan
           ELSE CASE method.t = "Function" ->
                       /\ api.err = NoError
                       /\ Len(interpreter.calls) = Len(before.calls) + 1
                       /\ LastStdout[1] = to_string(object) \o "\n"
                       /\ Len(method.func.params) = 2
                          => LastStdout[2] = to_string(args[1]) \o "\n"
                  [] method.name = "Queue" ->
                       /\ api.err = NoError
                       /\ api.val.fields["__type"] = StringV("Queue")
                  [] method.name = "size" ->
                       \* size got the receiver, which is no HashMap
                       api.err = TypeError("Expected HashMap object")

\* C17's case: a two-parameter method called with the receiver alone is
\* refused, and called with one argument prints receiver and argument.
C17_Witness ==
    /\ api.op = "call_trait_method"
    /\ api.args[1] = StringV("s")
    /\ \/ api.args[4] = << >> /\ api.err = WrongArity(2, 1)
       \/ api.args[4] = << IntV(7) >> /\ LastStdout = << "s\n", "7\n" >>

(***************************************************************************)
(* Modules: an importing program and the imports it makes.                 *)
(***************************************************************************)
ModuleNames == DOMAIN Files \cup {"collections", "nowhere"}
ImporterStmts ==
    { Let("x", Lit(IntV(1))), Let("N", Lit(IntV(0))), Println(Id("N")) }
NextModules ==
    \/ \E name \in ModuleNames :
           api.n < MaxRegistrations /\ ImportModule(name)
    \/ \E stmt \in ImporterStmts :
           Len(program) < MaxImporterStmts /\ ExecuteStmt(stmt)
    \/ Finish
SpecModules == Init /\ [][NextModules]_vars

\* The number of times `x` occurs in the sequence `seq`.
Count(x, seq) == Cardinality({ i \in DOMAIN seq : seq[i] = x })

\* C18: whatever the imports, the file of a module is read and its
\* top-level statements are executed at most once, and an import of a name
\* the registry already holds returns the exports cached by the first
\* import without reading or executing anything.
C18_ModuleExecutesAtMostOnce ==
    /\ \A name \in DOMAIN Files :
           /\ Count(name, registry.reads) <= 1
           /\ Count("loading " \o name \o "\n", interpreter.stdout) <= 1
    /\ (api.op = "import_module" /\ api.args[1] \in DOMAIN api.registry.modules)
       => /\ api.err = NoError
          /\ api.val = ObjectV(api.registry.modules[api.args[1]].exports)
          /\ interpreter.stdout = before.stdout
          /\ registry = api.registry

\* C19: a successful import leaves the importer's environment with exactly
\* the bindings and values it had, none of the module's names among them,
\* and the module runs in a fresh environment: it does not see the
\* importer's names (the module `reader`, which reads x, never loads).
C19_ImportLeavesImporterUntouched ==
    api.op = "import_module"
    => /\ api.err = NoError => interpreter.environment = before.environment
       /\ api.args[1] = "reader" => api.err = UndefinedVariable("x")

\* C19's case: the first import of `counter` by a program that has bound N
\* itself: the module ran, and N is still the importer's.
C19_Witness ==
    /\ api.op = "import_module"
    /\ api.args[1] = "counter"
    /\ api.err = NoError
    /\ interpreter.stdout # before.stdout
    /\ Defined(before.environment, "N")
    /\ Lookup(interpreter.environment, "N") = IntV(0)

\* The environment of the module `name` after all its statements.
FinalEnvironment(name) ==
    self_execute_stmts(Interpreter_new, Files[name]).self.environment
PublicNames(name) ==
    { Files[name][i].name :
          i \in { j \in DOMAIN Files[name] : IsPublic(Files[name][j]) } }

\* C20: the exports of a loaded module are exactly its public top-level
\* declarations, each with the value its name has in the environment of the
\* module after all the statements of the module have run.
C20_ExportsArePublicFinalValues ==
    ( /\ api.op = "import_module"
      /\ api.args[1] \in DOMAIN Files
      /\ api.err = NoError )
    => /\ DOMAIN api.val.fields = PublicNames(api.args[1])
       /\ \A n \in PublicNames(api.args[1]) :
              api.val.fields[n] = Lookup(FinalEnvironment(api.args[1]), n)

\* C28: when an import fails because a statement of the module raises an
\* error, the current environment of the interpreter is the importer's
\* again, and none of the names the partly executed module bound (the
\* `partial` of the module `broken`) is visible in it.
C28_FailedImportRestoresEnvironment ==
    ( /\ api.op = "import_module"
      /\ api.args[1] \in DOMAIN Files
      /\ api.err # NoError )
    => /\ interpreter.environment = before.environment
       /\ ~Defined(interpreter.environment, "partial")

\* The names of the user functions that the programs of Spec call.
CalledNames == {"reader", "writer"} \cup CallerNames

\* C29: after a call of a user function has returned, with a value or with
\* an error raised inside the body, the current environment of the
\* interpreter is the one that was current before the call.
C29_CallRestoresCallerEnvironment ==
    ( /\ Executed
      /\ LastStmt.s = "Expr"
      /\ LastStmt.expr.e = "Call"
      /\ LastStmt.expr.func.name \in CalledNames
      /\ Defined(before.environment, LastStmt.expr.func.name) )
    => interpreter.environment = before.environment

(***************************************************************************)
(* The trait registry under registrations alone, a trait re-registered     *)
(* under its name among them.                                              *)
(***************************************************************************)
\* trait Marker { fn mark(self); }
MarkerWithMethod ==
    Trait("Marker",
          Insert(EmptyValues, "mark", TraitMethod("mark", << "self" >>, None_)))
NextRegistry ==
    \/ \E t \in {Show, Marker, MarkerWithMethod} :
           api.n < MaxRegistrations /\ RegisterTrait(t)
    \/ \E i \in Impls :
           api.n < MaxRegistrations /\ RegisterImpl(i)
    \/ Finish
SpecRegistry == Init /\ [][NextRegistry]_vars

\* C30: every impl the registry holds is complete for the definition its
\* trait has in the registry now: the trait is registered, and each of its
\* methods is provided by the impl or has a default body.
C30_ImplsAreComplete ==
    \A key \in DOMAIN interpreter.trait_registry.impls :
        LET impl_def == interpreter.trait_registry.impls[key]
        IN  /\ impl_def.trait_name \in DOMAIN interpreter.trait_registry.traits
            /\ MissingMethods(
                   interpreter.trait_registry.traits[impl_def.trait_name],
                   impl_def) = {}

(***************************************************************************)
(* OS threads: a program that spawns, and the threads it has spawned.      *)
(***************************************************************************)
\* fn worker() { println(x); x = 7; println(x); }
FnWorker ==
    Function("worker", << >>,
        << Println(Id("x")), Assign("x", Lit(IntV(7))), Println(Id("x")) >>)
SpawnerStmts ==
    { Let("x", Lit(IntV(1))), Assign("x", Lit(IntV(2))), FnWorker,
      Println(Id("x")) }
NextThreads ==
    \/ \E stmt \in SpawnerStmts :
           Len(program) < MaxSpawnerStmts /\ ExecuteStmt(stmt)
    \/ \E name \in {"worker", "x"} :
           api.n < MaxThreads /\ Spawn(name)
    \/ \E i \in DOMAIN threads : ThreadStep(i)
    \/ Finish
SpecThreads == Init /\ [][NextThreads]_vars

\* The Interpreter after the statements of `stmts` alone, one after the
\* other.
Replay(stmts) ==
    LET after[i \in 0..Len(stmts)] ==
            IF i = 0 THEN Interpreter_new
            ELSE self_execute_stmt([after[i - 1] EXCEPT !.fuel = MaxFuel],
                                   stmts[i]).self
    IN  after[Len(stmts)]

\* What the thread comes to when it runs alone on a copy of the spawner's
\* Interpreter.
RunsAlone(thread) ==
    call_value(clone(thread.origin), thread.func, << >>)

Immediate == Future(<< >>, "Ready", IntV(1))
YieldOnce == Future(<< Step(TRUE, 0) >>, "Ready", IntV(2))
TimerOnce == Future(<< Step(FALSE, 1) >>, "Ready", IntV(3))
Joined == Future(<< Step(TRUE, 1), Step(FALSE, 1) >>, "Ready", IntV(4))
Futures == { Immediate, YieldOnce, TimerOnce, Joined, Sleep }
Instants == 0..MaxInstant

Polling == \E now \in Instants : RunLoop(now)
Waking == \E task \in DOMAIN runtime.tasks : Wake(task)
NextAsync ==
    \/ \E future \in Futures :
           Len(runtime.tasks) < MaxTasks /\ SpawnTask(future)
    \/ \E future \in Futures :
           Len(runtime.tasks) < MaxTasks /\ BlockOn(future)
    \/ Run
    \/ Len(runtime.polls) < MaxPolls /\ Polling
    \/ CheckWoken
    \/ Waking
    \/ Recv
SpecAsync == Init /\ [][NextAsync]_vars

\* The thread of the executor and the timer threads keep running.
SpecAsyncLive ==
    /\ SpecAsync
    /\ WF_vars(Len(runtime.polls) < MaxPolls /\ Polling)
    /\ WF_vars(CheckWoken)
    /\ WF_vars(Waking)
    /\ WF_vars(Recv)

\* Every Pending poll of the future is followed by a call of its waker, and
\* after finitely many of them the future is ready.
CompletesWhenWoken(future) ==
    /\ future.then = "Ready"
    /\ \A i \in DOMAIN future.steps :
           future.steps[i].wake \/ future.steps[i].timers > 0

\* C21: block_on does not return before the future has completed, and for
\* a future that completes after finitely many Pending polls, each followed
\* by a call of its waker, it returns Ok with the result of the future.
C21_BlockOnReturnsTheResult ==
    ( /\ runtime.result # None_
      /\ CompletesWhenWoken(runtime.awaited[1]) )
    => /\ Completed(runtime, runtime.awaited_task[1])
       /\ runtime.result[1].err = NoError
       /\ runtime.result[1].val = runtime.awaited[1].output

\* C22: no wake-up is missed.  When run has returned, no task is left that
\* has not completed and whose waker was called, while the loop was
\* running, after its last poll began.
C22_NoWakeupIsMissed ==
    ( /\ runtime.returned
      /\ runtime.pc \in {"idle", "recv"} )
    => \A task \in DOMAIN runtime.tasks :
           ~Completed(runtime, task) => ~runtime.in_loop[task]

\* The task awaits the Sleep of the runtime and has been polled.
SleepPolled(task) ==
    /\ task \in DOMAIN runtime.tasks
    /\ \E i \in DOMAIN runtime.polls : runtime.polls[i] = task
    /\ runtime.tasks[task].future \in { Some(Sleep), Some(wrapped_future(Sleep)) }
SleepCompleted(task) ==
    /\ task \in DOMAIN runtime.tasks
    /\ Completed(runtime, task)

\* C23: the future of sleep resolves: a task that awaits it and has been
\* polled eventually completes.
C23_SleepResolves ==
    \A task \in 1..MaxTasks : SleepPolled(task) ~> SleepCompleted(task)

\* C24: tasks are polled one at a time in the order in which they were put
\* on the ready queue; spawn and the check after Pending put a task at the
\* tail.  The tasks ever put on the queue, in order, are those polled so
\* far, in order, followed by the queue; the task held by the loop is the
\* one polled last.
C24_PollsInFifoOrder ==
    /\ runtime.arrivals = runtime.polls \o runtime.executor.ready_queue
    /\ runtime.current # None_
       => /\ runtime.pc = "polled"
          /\ runtime.current[1] = runtime.polls[Len(runtime.polls)]

\* C24's case: two tasks were spawned, the first was polled, put back at
\* the tail, and polled again after the second.
C24_Witness ==
    /\ Len(runtime.polls) >= 3
    /\ runtime.polls[1] = 1
    /\ runtime.polls[2] = 2
    /\ runtime.polls[3] = 1

Places(task) ==
    Cardinality({ i \in DOMAIN runtime.executor.ready_queue :
                      runtime.executor.ready_queue[i] = task })
    + Cardinality({ i \in DOMAIN runtime.executor.sleeping_tasks :
                        runtime.executor.sleeping_tasks[i].task = task })
    + (IF runtime.current = Some(task) THEN 1 ELSE 0)

\* C26: each task that was spawned and has not completed is in exactly one
\* of the ready queue, the sleeping tasks, and the hands of the loop.
C26_TaskIsInOnePlace ==
    \A task \in DOMAIN runtime.tasks :
        ~Completed(runtime, task) => Places(task) = 1

\* C27: the loop never sets the wake flag itself, and it puts a task back
\* after Pending only if the waker of the task was called since that poll
\* began: a flag left set by an earlier wake does not count.
C27_OnlyAFreshWakeRequeues ==
    /\ runtime.marked = 0
    /\ runtime.checked # None_ /\ runtime.checked[1].requeued
       => runtime.checked[1].fired

=============================================================================
